---- MODULE Spec2Model ----
(***************************************************************************)
(* Model of the PyNotes GEE notebooks: the local NDVI animation pipeline   *)
(* of animate_image_collection.ipynb (download loop, save_geotiff, glob    *)
(* and sort), the colormap helper get_hex_cmap of the colormaps notebook,  *)
(* and the filterDate requests of value_at_a_point.                        *)
(*                                                                         *)
(* Python strings are sequences of one-character strings, so formatting,   *)
(* parsing, slicing and list.sort() act on characters as the code does.    *)
(***************************************************************************)
EXTENDS Integers, Sequences, FiniteSets, TLC

VARIABLES
    pc,          \* position of the notebook run / of the function under call
    exc,         \* the exception that ended the running cell, or "none"
    padYear,     \* platform: TRUE when the C library's %Y pads years to 4 digits
    dates,       \* the list `dates`
    idx,         \* 1-based position of the for loop in `dates`
    start_date,  \* loop local start_date
    end_date,    \* loop local end_date
    filename,    \* loop local filename
    catalog,     \* dates of the images held by the collection the loop queries
    folder,      \* files on disk: path -> content
    stdout,      \* lines printed by the download cell
    images,      \* the list `images` of the glob cell
    attempted,   \* history: the dates whose iteration started, in order
    filenames,   \* history: the filename bound in each started iteration
    outcomes,    \* history: what the remote service did for each attempted date
    written,     \* history: path -> content of the last write of this run
    log,         \* history: the calls and file operations of the download cell
    raster_bound,   \* kernel: TRUE when the global name `raster` is bound
    frame_calls,    \* history: the arguments animate(index) was called with
    opened,         \* history: the paths animate passed to xr.open_dataarray
    titles,         \* history: the titles animate set on the axes
    grabbed,        \* the frames the writer of ani.save has grabbed, in order
    outputs_entry,  \* disk: what '../outputs' is: "absent", "dir" or "file"
    gif_entry,      \* disk: what gif_folder is: "absent", "dir" or "file"
    cell_runs,      \* history: how many times the gif_folder cell has run
    mkdir_calls,    \* history: how many times os.mkdir has created gif_folder
    nb,             \* the notebook the kernel is running, or "none"
    cell,           \* 1-based position of the next code cell of the notebook
    ee_initialized, \* kernel: TRUE once ee.Initialize() has completed
    credentials,    \* disk: the stored Earth Engine credentials
    sessions,       \* history: how many kernel sessions have been started
    init_calls,     \* history: ee.Initialize() calls completed in this session
    auth_session,   \* history: the session that obtained the credentials
    remote_calls,   \* history: the cells that contacted the remote service
    collection,     \* the ImageCollection bound to `collection` (cloud animation)
    unique_doy,     \* the ImageCollection bound to `unique_doy`
    join_col,       \* the ImageCollection bound to `join_col`
    cm_N,        \* rgb_cmap.N of the colormap passed to get_hex_cmap
    cm_n,        \* argument n of get_hex_cmap
    rgb_index,   \* local rgb_index of get_hex_cmap
    hex_cmap,    \* list returned by get_hex_cmap
    coll,        \* system:time_start of the images of a remote collection
    f_start,     \* first argument of filterDate
    f_end,       \* second argument of filterDate
    dataset,     \* time stamps of the collection filterDate returns
    run,            \* history: how many times the download cell was started
    first_folder,   \* history: the files on disk when the first run ended
    first_outcomes, \* history: what the service did in the first run
    kernel,         \* "fresh", or "used" when names of an earlier run are left
    namespace,      \* kernel: global name -> what it is bound to, or "unbound"
    stmt,           \* 1-based position of the next statement of the notebook
    hx_in,          \* a HEX colour string given to ListedColormap
    hx_rgb,         \* its components on the 0-255 scale, as the scale cell prints
    hx_out          \* the HEX string colors.rgb2hex makes of the colour

vars == <<pc, exc, padYear, dates, idx, start_date, end_date, filename, catalog,
          folder, stdout, images, attempted, filenames, outcomes, written,
          log, raster_bound, frame_calls, opened, titles, grabbed,
          outputs_entry, gif_entry, cell_runs, mkdir_calls,
          nb, cell, ee_initialized, credentials, sessions, init_calls,
          auth_session, remote_calls, collection, unique_doy, join_col,
          cm_N, cm_n, rgb_index, hex_cmap, coll, f_start, f_end, dataset,
          run, first_folder, first_outcomes, kernel, namespace, stmt,
          hx_in, hx_rgb, hx_out>>

loopVars == <<dates, idx, start_date, end_date, filename, catalog, folder,
              stdout, images, attempted, filenames, outcomes, written, log>>
animVars == <<raster_bound, frame_calls, opened, titles, grabbed>>
fsVars == <<outputs_entry, gif_entry, cell_runs, mkdir_calls>>
sessionVars == <<nb, cell, ee_initialized, credentials, sessions, init_calls,
                 auth_session, remote_calls>>
cloudVars == <<collection, unique_doy, join_col>>
rerunVars == <<run, first_folder, first_outcomes>>
nameVars == <<kernel, namespace, stmt>>
hexVars == <<hx_in, hx_rgb, hx_out>>
otherVars == <<rerunVars, nameVars, hexVars>>
restVars == <<fsVars, sessionVars, cloudVars, otherVars>>
cmapVars == <<cm_N, cm_n, rgb_index, hex_cmap>>
filterVars == <<coll, f_start, f_end, dataset>>

NoStr == <<>>

-----------------------------------------------------------------------------
(* Characters.  Alphabet lists the characters the notebooks put in paths   *)
(* and dates by ascending code point, the order str comparison uses.       *)

Alphabet ==
    << "#", "-", ".", "/",
       "0", "1", "2", "3", "4", "5", "6", "7", "8", "9",
       "_",
       "a", "b", "c", "d", "e", "f", "g", "h", "i", "j", "k", "l", "m",
       "n", "o", "p", "q", "r", "s", "t", "u", "v", "w", "x", "y", "z" >>

Ord(c) == CHOOSE k \in 1..Len(Alphabet) : Alphabet[k] = c

DigitChars == << "0", "1", "2", "3", "4", "5", "6", "7", "8", "9" >>

DigitChar(n) == DigitChars[n + 1]

IsDigit(c) == \E k \in 1..10 : DigitChars[k] = c

DigitVal(c) == (CHOOSE k \in 1..10 : DigitChars[k] = c) - 1

\* str(n) for n >= 0: decimal digits, no padding
RECURSIVE IntToStr(_)
IntToStr(n) ==
    IF n < 10 THEN << DigitChar(n) >>
    ELSE Append(IntToStr(n \div 10), DigitChar(n % 10))

\* '%0<w>d' % n
RECURSIVE ZeroPad(_, _)
ZeroPad(s, w) == IF Len(s) >= w THEN s ELSE ZeroPad(<< "0" >> \o s, w)

\* int(s) for a string of digits
RECURSIVE StrToInt(_)
StrToInt(s) ==
    IF Len(s) = 0 THEN 0
    ELSE 10 * StrToInt(SubSeq(s, 1, Len(s) - 1)) + DigitVal(s[Len(s)])

-----------------------------------------------------------------------------
(* datetime: strptime, + timedelta(days=1), strftime (download loop).      *)

MINYEAR == 1
MAXYEAR == 9999

DAYS_IN_MONTH == << 31, 28, 31, 30, 31, 30, 31, 31, 30, 31, 30, 31 >>

\* (a leap rule without the century exception)
is_leap_every_fourth(y) == y % 4 = 0

is_leap(y) == y % 4 = 0 /\ (y % 100 # 0 \/ y % 400 = 0)

days_in_month(y, m) == IF m = 2 /\ is_leap(y) THEN 29 ELSE DAYS_IN_MONTH[m]

days_before_year(y) ==
    (y - 1) * 365 + (y - 1) \div 4 - (y - 1) \div 100 + (y - 1) \div 400

RECURSIVE days_before_month(_, _)
days_before_month(y, m) ==
    IF m = 1 THEN 0 ELSE days_before_month(y, m - 1) + days_in_month(y, m - 1)

\* date.toordinal(): 0001-01-01 is day 1
ymd2ord(y, m, d) == days_before_year(y) + days_before_month(y, m) + d

MAXORDINAL == ymd2ord(MAXYEAR, 12, 31)

\* date.fromordinal(n), by the 400/100/4/1-year cycles
ord2ymd(n) ==
    LET n0   == n - 1
        n400 == n0 \div 146097
        r400 == n0 % 146097
        n100 == r400 \div 36524
        r100 == r400 % 36524
        n4   == r100 \div 1461
        r4   == r100 % 1461
        n1   == r4 \div 365
        r1   == r4 % 365
        year == n400 * 400 + 1 + n100 * 100 + n4 * 4 + n1
    IN  IF n1 = 4 \/ n100 = 4 THEN << year - 1, 12, 31 >>
        ELSE
          LET leap  == n1 = 3 /\ (n4 # 24 \/ n100 = 3)
              mGuess == (r1 + 50) \div 32
              before(mm) == days_before_month(IF leap THEN 4 ELSE 1, mm)
              month == IF before(mGuess) > r1 THEN mGuess - 1 ELSE mGuess
          IN  << year, month, r1 - before(month) + 1 >>

\* The text matches \d\d\d\d-\d\d-\d\d
IsIsoShape(s) ==
    /\ Len(s) = 10
    /\ s[5] = "-" /\ s[8] = "-"
    /\ \A k \in {1, 2, 3, 4, 6, 7, 9, 10} : IsDigit(s[k])

\* The fields of a 'YYYY-MM-DD' text, read as numbers
FieldsOf(s) ==
    << StrToInt(SubSeq(s, 1, 4)), StrToInt(SubSeq(s, 6, 7)), StrToInt(SubSeq(s, 9, 10)) >>

\* The value a call returns, or the exception it raises
Returns(v) == [err |-> "none", val |-> v]
Raises(e) == [err |-> e, val |-> << >>]

\* datetime.strptime(s, '%Y-%m-%d') for a 10-character s: <<y, m, d>>, or
\* ValueError when the text is no date
strptime(s) ==
    IF ~IsIsoShape(s) THEN Raises("ValueError")
    ELSE
      LET y == StrToInt(SubSeq(s, 1, 4))
          m == StrToInt(SubSeq(s, 6, 7))
          d == StrToInt(SubSeq(s, 9, 10))
      IN  IF y < MINYEAR \/ m < 1 \/ m > 12 \/ d < 1 THEN Raises("ValueError")
          ELSE IF d > days_in_month(y, m) THEN Raises("ValueError")
          ELSE Returns(<< y, m, d >>)

\* dt + timedelta(days=1): <<y, m, d>>, or OverflowError past MAXYEAR
plus_one_day(ymd) ==
    LET days == ymd2ord(ymd[1], ymd[2], ymd[3]) + 1
    IN  IF 0 < days /\ days <= MAXORDINAL THEN Returns(ord2ymd(days))
        ELSE Raises("OverflowError")

\* dt.strftime('%Y-%m-%d'); %Y is the C library's: four digits where it
\* pads (pad = TRUE), the bare decimal year where it does not (glibc)
strftime(ymd, pad) ==
    (IF pad THEN ZeroPad(IntToStr(ymd[1]), 4) ELSE IntToStr(ymd[1]))
        \o << "-" >> \o ZeroPad(IntToStr(ymd[2]), 2)
        \o << "-" >> \o ZeroPad(IntToStr(ymd[3]), 2)

\* line 425: the value bound to end_date, or the exception the line raises
EndDate(s, pad) ==
    LET dt == strptime(s)
    IN  IF dt.err # "none" THEN dt
        ELSE LET nxt == plus_one_day(dt.val)
             IN  IF nxt.err # "none" THEN nxt
                 ELSE Returns(strftime(nxt.val, pad))

\* 'YYYY-MM-DD' text of a date, as the remote service formats it
IsoDate(y, m, d) ==
    ZeroPad(IntToStr(y), 4) \o << "-" >> \o ZeroPad(IntToStr(m), 2)
        \o << "-" >> \o ZeroPad(IntToStr(d), 2)

-----------------------------------------------------------------------------
(* Paths, the file system, glob and list.sort().                           *)

\* gif_folder = '../outputs/gif_files'
GifFolder ==
    << ".", ".", "/", "o", "u", "t", "p", "u", "t", "s", "/",
       "g", "i", "f", "_", "f", "i", "l", "e", "s" >>

\* (a name that keeps the year and month of the date only)
FilenameByMonth(gif_folder, date) ==
    gif_folder \o << "/", "n", "d", "v", "i", "_" >> \o SubSeq(date, 1, 7)
        \o << ".", "t", "i", "f", "f" >>

\* f"{gif_folder}/ndvi_{date}.tiff"
Filename(gif_folder, date) ==
    gif_folder \o << "/", "n", "d", "v", "i", "_" >> \o date
        \o << ".", "t", "i", "f", "f" >>

\* a < b for two str: the first differing character decides, by code point;
\* a proper prefix is smaller
RECURSIVE StrLessFrom(_, _, _)
StrLessFrom(a, b, k) ==
    IF k > Len(a) THEN k <= Len(b)
    ELSE IF k > Len(b) THEN FALSE
    ELSE IF a[k] # b[k] THEN Ord(a[k]) < Ord(b[k])
    ELSE StrLessFrom(a, b, k + 1)

StrLess(a, b) == StrLessFrom(a, b, 1)

\* (the list in descending order, as sort(reverse=True) leaves it)
RECURSIVE SortPathsDescending(_)
SortPathsDescending(S) ==
    IF S = {} THEN << >>
    ELSE LET most == CHOOSE x \in S : \A y \in S : x = y \/ StrLess(y, x)
         IN  << most >> \o SortPathsDescending(S \ {most})

\* the list holding the members of S after list.sort()
RECURSIVE SortPaths(_)
SortPaths(S) ==
    IF S = {} THEN << >>
    ELSE LET least == CHOOSE x \in S : \A y \in S : x = y \/ StrLess(x, y)
         IN  << least >> \o SortPaths(S \ {least})

StartsWith(p, pre) == Len(p) >= Len(pre) /\ SubSeq(p, 1, Len(pre)) = pre

EndsWith(p, suf) ==
    Len(p) >= Len(suf) /\ SubSeq(p, Len(p) - Len(suf) + 1, Len(p)) = suf

\* (a write that leaves the older file of the same name beside the new one)
WriteFileKeepingOld(fs, path, content) ==
    fs \cup {[path |-> path, content |-> content]}

\* The files on disk are a set of [path, content] with one entry per path.
\* open(path, 'wb') ... f.write(content): creates the file or replaces it
WriteFile(fs, path, content) ==
    {f \in fs : f.path # path} \cup {[path |-> path, content |-> content]}

Paths(fs) == {f.path : f \in fs}

ContentOf(fs, path) == (CHOOSE f \in fs : f.path = path).content

\* (a glob of "{gif_folder}/*": every entry of the folder)
GlobEverything(fs, gif_folder) ==
    {p \in Paths(fs) : StartsWith(p, gif_folder \o << "/" >>)}

\* glob.glob(f"{gif_folder}/*.tiff"): the entries of the folder whose name
\* ends in .tiff and does not begin with a dot
GlobTiff(fs, gif_folder) ==
    LET pre == gif_folder \o << "/" >>
        base(p) == SubSeq(p, Len(pre) + 1, Len(p))
    IN  {p \in Paths(fs) :
            /\ StartsWith(p, pre)
            /\ EndsWith(base(p), << ".", "t", "i", "f", "f" >>)
            /\ base(p)[1] # "."
            /\ \A k \in 1..Len(base(p)) : base(p)[k] # "/"}

-----------------------------------------------------------------------------
(* The remote service: filterDate, first, getDownloadUrl, requests.get.    *)

MsPerDay == 86400000

\* A time stamp is << d, ms >>: d whole days after 1970-01-01T00:00 UTC and
\* 0 <= ms < MsPerDay milliseconds into that day, i.e. the value
\* d * MsPerDay + ms of system:time_start
EarlierStamp(a, b) == a[1] < b[1] \/ (a[1] = b[1] /\ a[2] < b[2])

\* ee.Date('YYYY-MM-DD'): midnight UTC of that day
Millis(s) ==
    LET f == FieldsOf(s)
    IN  << ymd2ord(f[1], f[2], f[3]) - ymd2ord(1970, 1, 1), 0 >>

\* (a filter that keeps the images stamped at the end date as well)
FilterDateClosed(stamps, start, end) ==
    {t \in stamps : ~EarlierStamp(t, Millis(start)) /\ ~EarlierStamp(Millis(end), t)}

\* collection.filterDate(start, end) on the images' system:time_start:
\* the start date is inclusive, the end date is exclusive
FilterDate(stamps, start, end) ==
    {t \in stamps : ~EarlierStamp(t, Millis(start)) /\ EarlierStamp(t, Millis(end))}

\* Day number of 1970-01-01 in the proleptic Gregorian calendar
EpochOrdinal == ymd2ord(1970, 1, 1)

\* <<y, m, d>> of a time stamp, in UTC
DateOfStamp(t) == ord2ymd(t[1] + EpochOrdinal)

\* ee.Image(image).date().format('YYYY-MM-dd')
FormatDate(t) ==
    LET ymd == DateOfStamp(t) IN IsoDate(ymd[1], ymd[2], ymd[3])

\* (the day of the year counted from 1, as datetime's tm_yday is)
getRelativeFromOne(t) ==
    t[1] - (ymd2ord(DateOfStamp(t)[1], 1, 1) - EpochOrdinal) + 1

\* ee.Date(t).getRelative('day', 'year'): whole days since the start of the
\* year of t, 0 on 1 January
getRelative(t) ==
    t[1] - (ymd2ord(DateOfStamp(t)[1], 1, 1) - EpochOrdinal)

RemoteOutcomes == {"ok", "http_error", "url_raises", "get_raises"}

\* What getDownloadUrl and requests.get can do for the image .first() gives:
\* with no image in the window the URL request raises
PossibleOutcomes(window) ==
    IF window = {} THEN {"url_raises"} ELSE RemoteOutcomes

\* collection.first(): the earliest image
FirstStamp(S) == CHOOSE x \in S : \A y \in S : ~EarlierStamp(y, x)

\* (save_geotiff opening the output file before it requests the data: a
\* failing request leaves an empty file)
save_geotiff_open_first(fs, out, file, window, outcome) ==
    CASE outcome = "url_raises" ->
            [folder |-> WriteFile(fs, file, [kind |-> "empty", t |-> << 0, 0 >>]),
             stdout |-> out, err |-> "EEException"]
      [] outcome = "get_raises" ->
            [folder |-> WriteFile(fs, file, [kind |-> "empty", t |-> << 0, 0 >>]),
             stdout |-> out, err |-> "ConnectionError"]
      [] outcome = "http_error" ->
            [folder |-> WriteFile(fs, file, [kind |-> "error body", t |-> << 0, 0 >>]),
             stdout |-> Append(out, [text |-> "Saved image", file |-> file]),
             err |-> "none"]
      [] OTHER ->
            [folder |-> WriteFile(fs, file, [kind |-> "GeoTIFF", t |-> FirstStamp(window)]),
             stdout |-> Append(out, [text |-> "Saved image", file |-> file]),
             err |-> "none"]

\* (save_geotiff without the with block: the file is written and left open)
FetchEventsUnclosed(outcome) ==
    CASE outcome = "url_raises" -> << "url_request", "url_raise" >>
      [] outcome = "get_raises" ->
            << "url_request", "url_response", "get_request", "get_raise" >>
      [] OTHER ->
            << "url_request", "url_response", "get_request", "get_response",
               "open", "write", "print" >>

\* What one call of save_geotiff does, in the order of its statements:
\* getDownloadUrl (a blocking call of the service), requests.get (blocking),
\* then open, write and print inside the with block, whose exit closes the file
FetchEvents(outcome) ==
    CASE outcome = "url_raises" -> << "url_request", "url_raise" >>
      [] outcome = "get_raises" ->
            << "url_request", "url_response", "get_request", "get_raise" >>
      [] OTHER ->
            << "url_request", "url_response", "get_request", "get_response",
               "open", "write", "print", "close" >>

\* The events of the k-th pass of the loop, for the date it handles
Tagged(events, k, date) ==
    [i \in 1..Len(events) |-> [ev |-> events[i], k |-> k, date |-> date]]

\* save_geotiff(ee_image, filename, ...): the folder and the output after the
\* call, and the exception it raises if any
save_geotiff(fs, out, file, window, outcome) ==
    CASE outcome = "url_raises" ->
            [folder |-> fs, stdout |-> out, err |-> "EEException"]
      [] outcome = "get_raises" ->
            [folder |-> fs, stdout |-> out, err |-> "ConnectionError"]
      [] outcome = "http_error" ->
            [folder |-> WriteFile(fs, file, [kind |-> "error body", t |-> << 0, 0 >>]),
             stdout |-> Append(out, [text |-> "Saved image", file |-> file]),
             err |-> "none"]
      [] OTHER ->
            [folder |-> WriteFile(fs, file, [kind |-> "GeoTIFF", t |-> FirstStamp(window)]),
             stdout |-> Append(out, [text |-> "Saved image", file |-> file]),
             err |-> "none"]

-----------------------------------------------------------------------------
(* Colormaps: np.linspace(...).astype(int), colors.rgb2hex, get_hex_cmap.  *)

RECURSIVE Pow2(_)
Pow2(k) == IF k = 0 THEN 1 ELSE 2 * Pow2(k - 1)

\* 2^t mod b
RECURSIVE Pow2Mod(_, _)
Pow2Mod(t, b) == IF t = 0 THEN 1 % b ELSE (2 * Pow2Mod(t - 1, b)) % b

\* floor(log2(x)) for x >= 1
RECURSIVE FloorLog2(_)
FloorLog2(x) == IF x < 2 THEN 0 ELSE 1 + FloorLog2(x \div 2)

\* e with 2^e <= a/b < 2^(e+1), for a, b >= 1
RECURSIVE RatioExpUp(_, _, _)
RatioExpUp(a, b, e) == IF a >= b * Pow2(e + 1) THEN RatioExpUp(a, b, e + 1) ELSE e

RECURSIVE RatioExpDown(_, _, _)
RatioExpDown(a, b, e) == IF a * Pow2(-e) < b THEN RatioExpDown(a, b, e - 1) ELSE e

RatioExp(a, b) == IF a >= b THEN RatioExpUp(a, b, 0) ELSE RatioExpDown(a, b, -1)

\* int(i * step) in IEEE double arithmetic, step = float(a) / b, when the
\* exact product i*a/b is the whole number K >= 1: K, or K - 1 when the
\* rounded step is low enough for the rounded product to fall below K.
\* With r = a * 2^(52 - e) mod b the step is rounded down by r / (b * 2^(52 - e)).
TruncatedWholeProduct(a, b, i) ==
    LET K  == (i * a) \div b
        e  == RatioExp(a, b)
        r  == (a * Pow2Mod(52 - e, b)) % b
        eK == FloorLog2(K)
        x  == eK - e - 1 - (IF Pow2(eK) = K THEN 1 ELSE 0)
        below == IF x >= 0 THEN i * r > b * Pow2(x) ELSE i * r * Pow2(-x) > b
    IN  IF r = 0 \/ 2 * r >= b THEN K
        ELSE IF below THEN K - 1 ELSE K

\* np.linspace(0, N-1, n).astype(int)[i], i = 0..n-1: sample i is i * step
\* with step = (N-1)/(n-1) computed in floating point, the last sample is
\* set to N-1, and astype(int) drops the fraction
LinspaceInt(N, n, i) ==
    LET a == N - 1
        b == n - 1
    IN  IF n = 1 THEN 0
        ELSE IF i = n - 1 THEN a
        ELSE IF (i * a) % b # 0 \/ i * a = 0 THEN (i * a) \div b
        ELSE TruncatedWholeProduct(a, b, i)

\* (linspace called with endpoint=False and one sample short)
LinspaceShort(N, n) == [i \in 1..(n - 1) |-> LinspaceInt(N, n, i - 1)]

\* (the samples taken from the last colour down to the first)
LinspaceDescending(N, n) == [i \in 1..n |-> LinspaceInt(N, n, n - i)]

\* rgb_index = np.linspace(0, rgb_cmap.N-1, n).astype(int)
Linspace(N, n) == [i \in 1..n |-> LinspaceInt(N, n, i - 1)]

HexDigits ==
    << "0", "1", "2", "3", "4", "5", "6", "7", "8", "9", "a", "b", "c", "d", "e", "f" >>

\* format(v, "02x") for 0 <= v <= 255
Hex2(v) == << HexDigits[(v \div 16) + 1], HexDigits[(v % 16) + 1] >>

\* colors.rgb2hex(c) for a colour given by its 0-255 components
rgb2hex(c) == << "#" >> \o Hex2(c[1]) \o Hex2(c[2]) \o Hex2(c[3])

\* The nine colours of the qualitative colormap 'Set1'
Set1 ==
    << << 228, 26, 28 >>, << 55, 126, 184 >>, << 77, 175, 74 >>,
       << 152, 78, 163 >>, << 255, 127, 0 >>, << 255, 255, 51 >>,
       << 166, 86, 40 >>, << 247, 129, 191 >>, << 153, 153, 153 >> >>

\* rgb_cmap(k) for the colormap with N colours: 'Set1' when N = 9, else a
\* ramp of N gray levels from black to white
rgb_cmap(N, k) ==
    IF N = Len(Set1) THEN Set1[k + 1]
    ELSE LET g == IF N = 1 THEN 0 ELSE (255 * k) \div (N - 1)
         IN  << g, g, g >>

\* (a size check that lets every n through)
TooManyNever(N, n) == FALSE

\* if n > rgb_cmap.N-1:
TooMany(N, n) == n > N - 1

\* get_hex_cmap(name, n) for a colormap of N colours: the list returned and
\* the indices sampled, or the ValueError raised by the size check or by
\* np.linspace for a negative n
get_hex_cmap(N, n) ==
    IF TooMany(N, n) \/ n < 0
    THEN [err |-> "ValueError", rgb_index |-> << >>, hex_cmap |-> << >>]
    ELSE LET index == Linspace(N, n)
         IN  [err |-> "none",
              rgb_index |-> index,
              hex_cmap |-> [i \in 1..Len(index) |-> rgb2hex(rgb_cmap(N, index[i]))]]

-----------------------------------------------------------------------------
(* Values of the variables a specification does not use.                   *)

\* The output folder exists and its cell is not part of the run
IdleFs ==
    /\ outputs_entry = "dir" /\ gif_entry = "dir"
    /\ cell_runs = 0 /\ mkdir_calls = 0

\* The kernel is initialized with valid credentials; no notebook is stepped
IdleSession ==
    /\ nb = "none" /\ cell = 0
    /\ ee_initialized = TRUE /\ credentials = "valid"
    /\ sessions = 0 /\ init_calls = 0 /\ auth_session = 0 /\ remote_calls = {}

IdleCloud == collection = << >> /\ unique_doy = << >> /\ join_col = << >>

\* The download cell is in its first run
IdleRerun == run = 1 /\ first_folder = {} /\ first_outcomes = << >>

\* No statement of the notebook is stepped
IdleNames == kernel = "fresh" /\ namespace = << >> /\ stmt = 0

\* No colour is being converted
IdleHex == hx_in = << >> /\ hx_rgb = << >> /\ hx_out = << >>

IdleOther == IdleRerun /\ IdleNames /\ IdleHex

IdleRest == IdleFs /\ IdleSession /\ IdleCloud /\ IdleOther

IdleAnim ==
    /\ raster_bound = FALSE /\ frame_calls = << >> /\ opened = << >>
    /\ titles = << >> /\ grabbed = << >>

IdleLoop ==
    /\ dates = << >> /\ idx = 1
    /\ filename = NoStr
    /\ catalog = {} /\ folder = {} /\ stdout = << >> /\ images = << >>
    /\ attempted = << >> /\ filenames = << >> /\ outcomes = << >> /\ written = {}
    /\ log = << >>
    /\ IdleAnim

IdleCmap == cm_N = 0 /\ cm_n = 0 /\ rgb_index = << >> /\ hex_cmap = << >>

IdleFilter == coll = {} /\ f_start = NoStr /\ f_end = NoStr /\ dataset = {}

-----------------------------------------------------------------------------
(* SpecDate: line 425 applied to one date string.                          *)

YearSpan == 1

PivotYears == {MINYEAR, 1000, 1900, 2000, 2012, 2024, MAXYEAR}

YearsTried ==
    {y \in UNION {(p - YearSpan)..(p + YearSpan) : p \in PivotYears} :
        MINYEAR <= y /\ y <= MAXYEAR}

\* Every date of the years tried, as the text 'YYYY-MM-DD'
ValidDates ==
    UNION {UNION {{IsoDate(y, m, d) : d \in 1..days_in_month(y, m)} : m \in 1..12} :
              y \in YearsTried}

InitDate ==
    /\ pc = "line425"
    /\ exc = "none"
    /\ padYear \in BOOLEAN
    /\ start_date \in ValidDates
    /\ end_date = NoStr
    /\ IdleLoop /\ IdleCmap /\ IdleFilter
    /\ IdleRest

\* start_date = date; end_date = (strptime(start_date) + timedelta(days=1)).strftime(...)
ComputeEndDate ==
    /\ pc = "line425"
    /\ LET r == EndDate(start_date, padYear)
       IN  /\ exc' = r.err
           /\ end_date' = IF r.err = "none" THEN r.val ELSE end_date
           /\ pc' = IF r.err = "none" THEN "line426" ELSE "raised"
    /\ UNCHANGED <<padYear, start_date, dates, idx, filename, catalog, folder,
                   stdout, images, attempted, filenames, outcomes, written, log>>
    /\ UNCHANGED <<animVars, cmapVars, filterVars>>
    /\ UNCHANGED restVars

NextDate == ComputeEndDate

SpecDate == InitDate /\ [][NextDate]_vars

\* The calendar's successor of a day, by the month lengths and the leap rule
LeapYear(y) == (y % 4 = 0 /\ y % 100 # 0) \/ y % 400 = 0

MonthLength(y, m) ==
    CASE m \in {4, 6, 9, 11} -> 30
      [] m = 2 -> IF LeapYear(y) THEN 29 ELSE 28
      [] OTHER -> 31

NextCalendarDay(y, m, d) ==
    IF d < MonthLength(y, m) THEN << y, m, d + 1 >>
    ELSE IF m < 12 THEN << y, m + 1, 1 >>
    ELSE << y + 1, 1, 1 >>

NextDayText(s) ==
    LET f == FieldsOf(s)
        n == NextCalendarDay(f[1], f[2], f[3])
    IN  IsoDate(n[1], n[2], n[3])

Line425Done == pc \in {"line426", "raised"}

\* C1 as stated: for every valid date string the line binds end_date to the
\* next calendar day in zero-padded YYYY-MM-DD form. Fails for 9999-12-31
\* (OverflowError) and, where %Y does not pad, for years below 1000.
C1_AsStated ==
    Line425Done => (pc = "line426" /\ end_date = NextDayText(start_date))

InFourDigitRange(s) ==
    /\ FieldsOf(s)[1] >= 1000
    /\ FieldsOf(s) # << MAXYEAR, 12, 31 >>

\* C1, for the dates that have a next day and a four-digit year: for every
\* valid date string from 1000-01-01 to 9999-12-30, end_date is the date
\* plus exactly one calendar day, in zero-padded YYYY-MM-DD form, across
\* month ends, year ends and leap days.
C1_NextDay ==
    (Line425Done /\ InFourDigitRange(start_date)) =>
        /\ pc = "line426"
        /\ IsIsoShape(end_date)
        /\ end_date = NextDayText(start_date)

\* A leap day reached from 02-28 of a leap year
C1_Witness ==
    /\ pc = "line426"
    /\ FieldsOf(start_date) = << 2012, 2, 28 >>
    /\ FieldsOf(end_date) = << 2012, 2, 29 >>

-----------------------------------------------------------------------------
(* Spec: the download cell, then the glob cell, of the local animation.    *)

MaxDates == 3

\* Image dates of the 16-day MODIS product: around the 2011/2012 year end,
\* and around the change from one-digit to two-digit months
DatePools ==
    { {IsoDate(2011, 12, 19), IsoDate(2012, 1, 1), IsoDate(2012, 1, 17)},
      {IsoDate(2012, 2, 2), IsoDate(2012, 9, 29), IsoDate(2012, 10, 15)} }

RECURSIVE SeqsUpTo(_, _)
SeqsUpTo(S, n) ==
    IF n = 0 THEN {<< >>}
    ELSE LET shorter == SeqsUpTo(S, n - 1)
         IN  shorter \cup {Append(q, x) : q \in shorter, x \in S}

\* Files the folder can hold before the cell runs: a frame left by an
\* earlier run and a file that is no raster
StaleFrame ==
    [path |-> Filename(GifFolder, IsoDate(2011, 12, 3)),
     content |-> [kind |-> "GeoTIFF", t |-> Millis(IsoDate(2011, 12, 3))]]

NotesFile ==
    [path |-> GifFolder \o << "/", "n", "o", "t", "e", "s", ".", "t", "x", "t" >>,
     content |-> [kind |-> "text", t |-> << 0, 0 >>]]

Init ==
    /\ pc = "loop"
    /\ exc = "none"
    /\ padYear \in BOOLEAN
    /\ \E pool \in DatePools :
           /\ dates \in SeqsUpTo(pool, MaxDates)
           /\ catalog \in SUBSET {Millis(d) : d \in pool}
    /\ idx = 1
    /\ start_date = NoStr /\ end_date = NoStr /\ filename = NoStr
    /\ folder \in SUBSET {StaleFrame, NotesFile}
    /\ stdout = << >>
    /\ images = << >>
    /\ attempted = << >> /\ filenames = << >> /\ outcomes = << >> /\ written = {}
    /\ log = << >>
    /\ IdleAnim
    /\ IdleCmap /\ IdleFilter
    /\ IdleRest

\* (a loop that catches a failing request and asks for the same date again)
LoopIterationRetrying ==
    /\ pc = "loop"
    /\ idx <= Len(dates)
    /\ LET date == dates[idx]
           r == EndDate(date, padYear)
       IN  /\ start_date' = date
           /\ attempted' = Append(attempted, date)
           /\ IF r.err # "none"
              THEN /\ exc' = r.err
                   /\ pc' = "raised"
                   /\ outcomes' = Append(outcomes, r.err)
                   /\ filenames' = Append(filenames, NoStr)
                   /\ UNCHANGED <<end_date, filename, folder, stdout, written, idx, log>>
              ELSE \E outcome \in PossibleOutcomes(FilterDate(catalog, date, r.val)) :
                     LET file == Filename(GifFolder, date)
                         res == save_geotiff(folder, stdout, file,
                                             FilterDate(catalog, date, r.val), outcome)
                     IN  /\ end_date' = r.val
                         /\ filename' = file
                         /\ filenames' = Append(filenames, file)
                         /\ outcomes' = Append(outcomes, outcome)
                         /\ folder' = res.folder
                         /\ stdout' = res.stdout
                         /\ exc' = res.err
                         /\ log' = log \o Tagged(FetchEvents(outcome), idx, date)
                         /\ IF res.err = "none"
                            THEN /\ written' = WriteFile(written, file, ContentOf(res.folder, file))
                                 /\ idx' = idx + 1
                                 /\ pc' = "loop"
                            ELSE /\ pc' = "loop"
                                 /\ UNCHANGED <<written, idx>>
    /\ UNCHANGED <<padYear, dates, catalog, images>>
    /\ UNCHANGED <<animVars, cmapVars, filterVars>>
    /\ UNCHANGED restVars

\* One pass of the body of `for date in dates:` (lines 423-430), the call of
\* save_geotiff included. An exception leaves the loop and ends the cell.
LoopIteration ==
    /\ pc = "loop"
    /\ idx <= Len(dates)
    /\ LET date == dates[idx]
           r == EndDate(date, padYear)
       IN  /\ start_date' = date
           /\ attempted' = Append(attempted, date)
           /\ IF r.err # "none"
              THEN /\ exc' = r.err
                   /\ pc' = "raised"
                   /\ outcomes' = Append(outcomes, r.err)
                   /\ filenames' = Append(filenames, NoStr)
                   /\ UNCHANGED <<end_date, filename, folder, stdout, written, idx, log>>
              ELSE \E outcome \in PossibleOutcomes(FilterDate(catalog, date, r.val)) :
                     LET file == Filename(GifFolder, date)
                         res == save_geotiff(folder, stdout, file,
                                             FilterDate(catalog, date, r.val), outcome)
                     IN  /\ end_date' = r.val
                         /\ filename' = file
                         /\ filenames' = Append(filenames, file)
                         /\ outcomes' = Append(outcomes, outcome)
                         /\ folder' = res.folder
                         /\ stdout' = res.stdout
                         /\ exc' = res.err
                         /\ log' = log \o Tagged(FetchEvents(outcome), idx, date)
                         /\ IF res.err = "none"
                            THEN /\ written' = WriteFile(written, file, ContentOf(res.folder, file))
                                 /\ idx' = idx + 1
                                 /\ pc' = "loop"
                            ELSE /\ pc' = "raised"
                                 /\ UNCHANGED <<written, idx>>
    /\ UNCHANGED <<padYear, dates, catalog, images>>
    /\ UNCHANGED <<animVars, cmapVars, filterVars>>
    /\ UNCHANGED restVars

\* The for loop has consumed the list: the cell ends normally
DownloadCellEnd ==
    /\ pc = "loop"
    /\ idx > Len(dates)
    /\ pc' = "done"
    /\ UNCHANGED <<exc, padYear, dates, idx, start_date, end_date, filename,
                   catalog, folder, stdout, images, attempted, filenames,
                   outcomes, written, log>>
    /\ UNCHANGED <<animVars, cmapVars, filterVars>>
    /\ UNCHANGED restVars

\* images = glob.glob(f"{gif_folder}/*.tiff"); images.sort()  (lines 451-453),
\* run once the download cell has ended, normally or by an exception
GlobCell ==
    /\ pc \in {"done", "raised"}
    /\ images' = SortPaths(GlobTiff(folder, GifFolder))
    /\ pc' = "globbed"
    /\ UNCHANGED <<exc, padYear, dates, idx, start_date, end_date, filename,
                   catalog, folder, stdout, attempted, filenames, outcomes, written, log>>
    /\ UNCHANGED <<animVars, cmapVars, filterVars>>
    /\ UNCHANGED restVars

Next == LoopIteration \/ DownloadCellEnd \/ GlobCell

Spec == Init /\ [][Next]_vars

Range(q) == {q[k] : k \in 1..Len(q)}

CellEnded == pc \in {"done", "raised", "globbed"}

RequestFailed(outcome) == outcome \in {"url_raises", "get_raises"}

\* C2: the filename bound for a date d is '<gif_folder>/ndvi_<d>.tiff', it
\* holds d verbatim, and two different requested dates never get the same
\* filename.
C2_FilenamePerDate ==
    \A j \in 1..Len(filenames) :
        /\ StartsWith(filenames[j], GifFolder \o << "/", "n", "d", "v", "i", "_" >>)
        /\ EndsWith(filenames[j], attempted[j] \o << ".", "t", "i", "f", "f" >>)
        /\ Len(filenames[j]) = Len(GifFolder) + 6 + Len(attempted[j]) + 5
        /\ \A k \in 1..Len(filenames) :
               attempted[j] # attempted[k] => filenames[j] # filenames[k]

\* Two different dates have been given their filenames
C2_Witness ==
    \E j, k \in 1..Len(filenames) :
        attempted[j] # attempted[k] /\ filenames[j] # NoStr /\ filenames[k] # NoStr

\* The date a frame path carries before its '.tiff', read as numbers
DateIn(p) == FieldsOf(SubSeq(p, Len(p) - 14, Len(p) - 5))

EarlierDay(a, b) ==
    \/ a[1] < b[1]
    \/ a[1] = b[1] /\ a[2] < b[2]
    \/ a[1] = b[1] /\ a[2] = b[2] /\ a[3] < b[3]

\* A path the download loop writes: the name of a frame of some valid date
IsFramePath(p) ==
    /\ Len(p) = Len(GifFolder) + 21
    /\ strptime(SubSeq(p, Len(p) - 14, Len(p) - 5)).err = "none"
    /\ p = Filename(GifFolder, SubSeq(p, Len(p) - 14, Len(p) - 5))

\* C3: after the glob cell, for the frame files the download loop wrote,
\* path p stands before path q in the sorted list exactly when the date in
\* p is earlier than the date in q.
C3_SortedIsChronological ==
    pc = "globbed" =>
        \A a, b \in 1..Len(images) :
            (IsFramePath(images[a]) /\ IsFramePath(images[b])) =>
                (a < b <=> EarlierDay(DateIn(images[a]), DateIn(images[b])))

\* Frames of two different years and of this run are in the sorted list
C3_Witness ==
    /\ pc = "globbed"
    /\ \E a, b \in 1..Len(images) :
           /\ images[a] \in Paths(written) /\ images[b] \in Paths(written)
           /\ DateIn(images[a])[1] < DateIn(images[b])[1]

\* C4 as stated: a failing request is caught, a message naming the skipped
\* file is printed and the loop goes on, so that every date of the list is
\* attempted. The loop of lines 423-430 has no try/except: violated.
C4_FailureCaught ==
    CellEnded =>
        /\ attempted = dates
        /\ \A k \in 1..Len(outcomes) :
               RequestFailed(outcomes[k]) =>
                   \E m \in 1..Len(stdout) :
                       stdout[m].text = "Skipped" /\ stdout[m].file = filenames[k]

\* C5: when a request has failed, the files written for the earlier dates are
\* on disk with the content written, and the glob cell that runs afterwards
\* lists exactly the .tiff files then present in the folder, once each.
C5_PartialFolder ==
    (CellEnded /\ exc # "none") =>
        /\ \A f \in written : f \in folder
        /\ pc = "globbed" =>
               /\ Range(images) =
                      {p \in Paths(folder) : EndsWith(p, << ".", "t", "i", "f", "f" >>)}
               /\ Len(images) = Cardinality(Range(images))

\* A run that failed after a first file was written, globbed with part of
\* the dates missing
C5_Witness ==
    /\ pc = "globbed"
    /\ exc # "none"
    /\ written # {}
    /\ Len(attempted) < Len(dates)
    /\ images # << >>

Requests == {"url_request", "get_request"}

Replies == {"url_response", "url_raise", "get_response", "get_raise"}

EventsOf(k, e) == {i \in 1..Len(log) : log[i].k = k /\ log[i].ev = e}

\* C11: the download is strictly sequential. The events of the log belong to
\* the dates in list order; every request is blocking, its answer or its
\* failure being the next event, so that no two requests are ever outstanding;
\* no date gets more than one HTTP fetch or more than one file write, and a
\* date whose pass completed got exactly one of each; and a request for the
\* date at position k + 1 is sent only after the file of the date at
\* position k has been written and then closed.
C11_StrictlySequential ==
    /\ \A i \in 1..Len(log) :
           log[i].k \in 1..Len(dates) /\ log[i].date = dates[log[i].k]
    /\ \A i \in 1..(Len(log) - 1) : log[i].k <= log[i + 1].k
    /\ \A i \in 1..Len(log) :
           /\ log[i].ev \in Requests =>
                  /\ i < Len(log)
                  /\ log[i + 1].ev \in Replies /\ log[i + 1].k = log[i].k
           /\ log[i].ev \in Replies => (i > 1 /\ log[i - 1].ev \in Requests)
    /\ \A k \in 1..Len(dates) :
           /\ Cardinality(EventsOf(k, "get_request")) <= 1
           /\ Cardinality(EventsOf(k, "write")) <= 1
           /\ k < idx => /\ Cardinality(EventsOf(k, "get_request")) = 1
                         /\ Cardinality(EventsOf(k, "write")) = 1
    /\ \A i \in 1..Len(log) :
           (log[i].ev \in Requests /\ log[i].k > 1) =>
               \E w \in EventsOf(log[i].k - 1, "write") :
                   \E c \in EventsOf(log[i].k - 1, "close") : w < c /\ c < i

\* The HTTP fetch for a second date has been sent after a first file was
\* written
C11_Witness ==
    /\ Len(attempted) >= 2
    /\ attempted[1] # attempted[2]
    /\ EventsOf(1, "write") # {}
    /\ EventsOf(2, "get_request") # {}

\* The download cell ran over the whole list with every request answered by
\* raster data, and the glob cell has run
AllSucceeded ==
    /\ pc = "globbed"
    /\ Len(outcomes) = Len(dates)
    /\ \A k \in 1..Len(outcomes) : outcomes[k] = "ok"

FramesOf(ds) == {Filename(GifFolder, ds[k]) : k \in 1..Len(ds)}

IsTiffPath(p) == EndsWith(p, << ".", "t", "i", "f", "f" >>)

\* C14 as stated: after a download in which every request succeeded, the
\* globbed files are exactly ndvi_<d>.tiff for d in dates, whatever the
\* folder held before. Violated when the folder held another .tiff file.
C14_AsStated ==
    AllSucceeded => Range(images) = FramesOf(dates)

\* C14, with the files of earlier runs: after a download in which every
\* request succeeded, the globbed files are the files ndvi_<d>.tiff for d in
\* dates, each holding the raster of the image dated d, together with the
\* .tiff files that were in the folder before and that this run did not
\* write; each is listed once, and files that are not .tiff are not listed.
C14_FramesAndEarlierTiffs ==
    AllSucceeded =>
        /\ Range(images) =
               FramesOf(dates)
                   \cup {p \in Paths(folder) \ Paths(written) : IsTiffPath(p)}
        /\ Len(images) = Cardinality(Range(images))
        /\ \A k \in 1..Len(dates) :
               ContentOf(folder, Filename(GifFolder, dates[k])) =
                   [kind |-> "GeoTIFF", t |-> Millis(dates[k])]

\* Two dates were downloaded into a folder that held a frame of an earlier
\* run and a text file
C14_Witness ==
    /\ AllSucceeded
    /\ Cardinality(FramesOf(dates)) >= 2
    /\ StaleFrame.path \in Range(images)
    /\ NotesFile.path \in Paths(folder)

\* C19 as stated: a file is written and 'Saved image' is printed only for a
\* request answered by raster data, and no answer with an error status is
\* stored as a frame. save_geotiff does not look at the status of the
\* response: violated.
C19_SavedOnlyOnSuccess ==
    /\ \A f \in written : f.content.kind = "GeoTIFF"
    /\ Len(stdout) = Cardinality({k \in 1..Len(outcomes) : outcomes[k] = "ok"})

\* C20: when getDownloadUrl or requests.get raises for a date, the pass of
\* the loop leaves the folder as it was before the call: no file is created,
\* none is changed, nothing is printed, and the output file was not opened.
C20_RaisingCallLeavesFolder ==
    [][(pc = "loop" /\ pc' = "raised") =>
          /\ folder' = folder
          /\ stdout' = stdout
          /\ written' = written
          /\ \A i \in 1..Len(log') :
                 log'[i].k = idx => log'[i].ev \notin {"open", "write", "close"}]_vars

\* A request raised after an earlier date had been saved into a folder that
\* held files already
C20_Witness ==
    /\ pc = "raised"
    /\ exc \in {"EEException", "ConnectionError"}
    /\ written # {}
    /\ Paths(folder) \ Paths(written) # {}
    /\ Filename(GifFolder, attempted[Len(attempted)]) \notin Paths(folder)

-----------------------------------------------------------------------------
(* SpecCmap: one call of get_hex_cmap.                                     *)

MaxN == 32

InitCmap ==
    /\ pc = "call"
    /\ exc = "none"
    /\ padYear = TRUE
    /\ start_date = NoStr /\ end_date = NoStr
    /\ IdleLoop /\ IdleFilter
    /\ IdleRest
    /\ cm_N \in 1..MaxN
    /\ cm_n \in (-1)..(cm_N + 2)
    /\ rgb_index = << >> /\ hex_cmap = << >>

CallGetHexCmap ==
    /\ pc = "call"
    /\ LET res == get_hex_cmap(cm_N, cm_n)
       IN  /\ exc' = res.err
           /\ rgb_index' = res.rgb_index
           /\ hex_cmap' = res.hex_cmap
           /\ pc' = IF res.err = "none" THEN "returned" ELSE "raised"
    /\ UNCHANGED <<padYear, start_date, end_date, cm_N, cm_n>>
    /\ UNCHANGED <<dates, idx, filename, catalog, folder, stdout, images,
                   attempted, filenames, outcomes, written, log>>
    /\ UNCHANGED <<animVars, filterVars>>
    /\ UNCHANGED restVars

NextCmap == CallGetHexCmap

SpecCmap == InitCmap /\ [][NextCmap]_vars

IsHexColour(h) ==
    /\ Len(h) = 7
    /\ h[1] = "#"
    /\ \A k \in 2..7 : \E d \in 1..Len(HexDigits) : HexDigits[d] = h[k]

\* C6: for every n it accepts, get_hex_cmap returns a list of exactly n HEX
\* colour strings, the i-th made from the i-th sampled colormap index.
C6_ExactlyNHexColours ==
    pc = "returned" =>
        /\ Len(hex_cmap) = cm_n
        /\ Len(rgb_index) = cm_n
        /\ \A i \in 1..Len(hex_cmap) :
               /\ IsHexColour(hex_cmap[i])
               /\ rgb_index[i] \in 0..(cm_N - 1)
               /\ hex_cmap[i] = rgb2hex(rgb_cmap(cm_N, rgb_index[i]))

\* get_hex_cmap('Set1', n=7) has returned the list the notebook shows
C6_Witness ==
    /\ pc = "returned"
    /\ cm_N = 9 /\ cm_n = 7
    /\ hex_cmap =
         << << "#", "e", "4", "1", "a", "1", "c" >>, << "#", "3", "7", "7", "e", "b", "8" >>,
            << "#", "4", "d", "a", "f", "4", "a" >>, << "#", "f", "f", "7", "f", "0", "0" >>,
            << "#", "f", "f", "f", "f", "3", "3" >>, << "#", "a", "6", "5", "6", "2", "8" >>,
            << "#", "9", "9", "9", "9", "9", "9" >> >>

CallEnded == pc \in {"returned", "raised"}

\* C7: for every n greater than the number of colours of the colormap the
\* call raises ValueError and returns no colour list.
C7_RaisesWhenTooMany ==
    (CallEnded /\ cm_n > cm_N) =>
        /\ pc = "raised"
        /\ exc = "ValueError"
        /\ hex_cmap = << >>

\* A call with n = N + 1 has raised
C7_Witness == pc = "raised" /\ exc = "ValueError" /\ cm_n = cm_N + 1 /\ cm_N = 9

\* C8: the colours are returned in ascending sample-index order: the index
\* used for the i-th colour is at most the index used for the (i+1)-th.
C8_AscendingIndexOrder ==
    pc = "returned" =>
        \A i \in 1..(Len(rgb_index) - 1) : rgb_index[i] <= rgb_index[i + 1]

\* A returned list of several colours whose indices rise from 0 to N-1
C8_Witness ==
    /\ pc = "returned"
    /\ Len(rgb_index) >= 3
    /\ rgb_index[1] = 0
    /\ rgb_index[Len(rgb_index)] = cm_N - 1
    /\ rgb_index[1] < rgb_index[2]

-----------------------------------------------------------------------------
(* SpecWeekly: the download and glob cells driven by a date list that is   *)
(* generated locally at a fixed interval.                                  *)

\* The dates start, start + step, ... that are not after end, as texts
RECURSIVE OrdinalsFrom(_, _, _)
OrdinalsFrom(o, last, step) ==
    IF o > last THEN << >> ELSE << o >> \o OrdinalsFrom(o + step, last, step)

DateRange(start, end, step) ==
    LET a == FieldsOf(start)
        b == FieldsOf(end)
        ords == OrdinalsFrom(ymd2ord(a[1], a[2], a[3]), ymd2ord(b[1], b[2], b[3]), step)
    IN  [k \in 1..Len(ords) |->
            LET ymd == ord2ymd(ords[k]) IN IsoDate(ymd[1], ymd[2], ymd[3])]

WeeklyRange == DateRange(IsoDate(2023, 1, 1), IsoDate(2023, 1, 31), 7)

InitWeekly ==
    /\ pc = "date_range"
    /\ exc = "none"
    /\ padYear \in BOOLEAN
    /\ dates = << >>
    /\ idx = 1
    /\ start_date = NoStr /\ end_date = NoStr /\ filename = NoStr
    /\ catalog \in SUBSET {Millis(WeeklyRange[k]) : k \in 1..Len(WeeklyRange)}
    /\ folder \in SUBSET {StaleFrame, NotesFile}
    /\ stdout = << >>
    /\ images = << >>
    /\ attempted = << >> /\ filenames = << >> /\ outcomes = << >> /\ written = {}
    /\ log = << >>
    /\ IdleAnim
    /\ IdleCmap /\ IdleFilter
    /\ IdleRest

\* The cell that builds `dates` for 2023-01-01 to 2023-01-31 in 7-day steps
DateRangeCell ==
    /\ pc = "date_range"
    /\ dates' = WeeklyRange
    /\ pc' = "loop"
    /\ UNCHANGED <<exc, padYear, idx, start_date, end_date, filename, catalog,
                   folder, stdout, images, attempted, filenames, outcomes, written, log>>
    /\ UNCHANGED <<animVars, cmapVars, filterVars>>
    /\ UNCHANGED restVars

NextWeekly == DateRangeCell \/ LoopIteration \/ DownloadCellEnd \/ GlobCell

SpecWeekly == InitWeekly /\ [][NextWeekly]_vars

WeeklyExpected ==
    << IsoDate(2023, 1, 1), IsoDate(2023, 1, 8), IsoDate(2023, 1, 15),
       IsoDate(2023, 1, 22), IsoDate(2023, 1, 29) >>

\* C9 as stated: the weekly range 2023-01-01 to 2023-01-31 gives exactly the
\* 5 dates 01-01, 01-08, 01-15, 01-22, 01-29, and the loop driven by it does
\* one iteration and binds one filename per date, none skipped or repeated.
\* A request that raises ends the loop of lines 423-430 early: violated.
C9_WeeklyRun ==
    /\ pc # "date_range" => dates = WeeklyExpected
    /\ CellEnded =>
           /\ attempted = dates
           /\ filenames = [k \in 1..Len(dates) |-> Filename(GifFolder, dates[k])]

\* The generated list alone: five dates, a week apart
WeeklyListAsExpected == pc # "date_range" => dates = WeeklyExpected

-----------------------------------------------------------------------------
(* SpecFilter: one filterDate request on a collection.                     *)

MaxFilterDays == 3

\* The days 2022-06-30 + k, k = 0..MaxFilterDays
FilterDay(k) ==
    LET ymd == ord2ymd(ymd2ord(2022, 6, 30) + k)
    IN  IsoDate(ymd[1], ymd[2], ymd[3])

\* Hour of the day, in ms, at which the daily GRIDMET images are stamped:
\* system:time_start 1656655200000 is 2022-07-01T06:00 UTC
GridmetOffset == 6 * 3600000

\* Stamps a collection can hold on those days: midnight UTC and 06:00 UTC
CandidateStamps ==
    {<< Millis(FilterDay(k))[1], ms >> : k \in 0..MaxFilterDays, ms \in {0, GridmetOffset}}

InitFilter ==
    /\ pc = "filterDate"
    /\ exc = "none"
    /\ padYear = TRUE
    /\ start_date = NoStr /\ end_date = NoStr
    /\ IdleLoop /\ IdleCmap
    /\ IdleRest
    /\ coll \in SUBSET CandidateStamps
    /\ f_start \in {FilterDay(k) : k \in 1..MaxFilterDays}
    /\ f_end \in {FilterDay(k) : k \in 1..MaxFilterDays}
    /\ dataset = {}

\* dataset = ee.ImageCollection(...).filterDate(start_date, end_date)
ApplyFilterDate ==
    /\ pc = "filterDate"
    /\ dataset' = FilterDate(coll, f_start, f_end)
    /\ pc' = "filtered"
    /\ UNCHANGED <<exc, padYear, start_date, end_date, coll, f_start, f_end>>
    /\ UNCHANGED <<dates, idx, filename, catalog, folder, stdout, images,
                   attempted, filenames, outcomes, written, log>>
    /\ UNCHANGED <<animVars, cmapVars>>
    /\ UNCHANGED restVars

NextFilter == ApplyFilterDate

SpecFilter == InitFilter /\ [][NextFilter]_vars

\* Days after 1970-01-01 of a date text
DayNumber(s) == Millis(s)[1]

\* C10: filterDate(start, end) keeps exactly the images whose time stamp t
\* satisfies start <= t < end: an image stamped exactly at start is kept, an
\* image stamped exactly at end is dropped.
C10_HalfOpenInterval ==
    pc = "filtered" =>
        /\ dataset \subseteq coll
        /\ \A t \in coll :
               t \in dataset <=> (DayNumber(f_start) <= t[1] /\ t[1] < DayNumber(f_end))
        /\ (<< DayNumber(f_start), 0 >> \in coll /\ DayNumber(f_start) < DayNumber(f_end))
               => << DayNumber(f_start), 0 >> \in dataset
        /\ << DayNumber(f_end), 0 >> \notin dataset

\* The request 2022-07-01 to 2022-07-02 on a collection holding the daily
\* images of 07-01 and 07-02 and images stamped exactly at both bounds has
\* kept the 07-01 images only
C10_Witness ==
    /\ pc = "filtered"
    /\ f_start = IsoDate(2022, 7, 1) /\ f_end = IsoDate(2022, 7, 2)
    /\ {<< 19174, 0 >>, << 19174, GridmetOffset >>, << 19175, 0 >>,
        << 19175, GridmetOffset >>} \subseteq coll
    /\ dataset = {<< 19174, 0 >>, << 19174, GridmetOffset >>}

-----------------------------------------------------------------------------
(* SpecFolder: the gif_folder cell, run once or again, then the download,  *)
(* glob and animation cells.                                               *)

MaxCellRuns == 2

\* The first dates of the printed list
FirstDates == << IsoDate(2012, 1, 1), IsoDate(2012, 1, 17) >>

\* (the cell without its isdir test: os.mkdir on every run)
MakeFolderAlways(out, gif, fs) ==
    IF gif # "absent"
    THEN [gif |-> gif, folder |-> fs, err |-> "FileExistsError", made |-> 0]
    ELSE IF out = "absent"
    THEN [gif |-> gif, folder |-> fs, err |-> "FileNotFoundError", made |-> 0]
    ELSE IF out = "file"
    THEN [gif |-> gif, folder |-> fs, err |-> "NotADirectoryError", made |-> 0]
    ELSE [gif |-> "dir", folder |-> {}, err |-> "none", made |-> 1]

\* if not glob.os.path.isdir(gif_folder): glob.os.mkdir(gif_folder)
\* os.mkdir creates one directory: it raises when the path exists as a file
\* and when the parent is missing or is not a directory
MakeFolder(out, gif, fs) ==
    IF gif = "dir"
    THEN [gif |-> gif, folder |-> fs, err |-> "none", made |-> 0]
    ELSE IF gif = "file"
    THEN [gif |-> gif, folder |-> fs, err |-> "FileExistsError", made |-> 0]
    ELSE IF out = "absent"
    THEN [gif |-> gif, folder |-> fs, err |-> "FileNotFoundError", made |-> 0]
    ELSE IF out = "file"
    THEN [gif |-> gif, folder |-> fs, err |-> "NotADirectoryError", made |-> 0]
    ELSE [gif |-> "dir", folder |-> {}, err |-> "none", made |-> 1]

\* (frames numbered from 1, as range(1, n + 1) would give them)
FrameIndexesOneBased(n) == [j \in 1..n |-> j]

\* The arguments FuncAnimation(fig, animate, n) passes to animate while
\* ani.save runs: the first frame once to set up the figure, then every frame
\* of range(n) in order
FrameIndexes(n) ==
    IF n = 0 THEN << >> ELSE << 0 >> \o [j \in 1..n |-> j - 1]

\* The calls of animate(index) for the indexes `calls`, in order, up to the
\* first one that raises: images[index] is read from the disk
RECURSIVE RunFrames(_, _, _, _)
RunFrames(calls, imgs, fs, done) ==
    IF calls = << >> THEN [calls |-> done.calls, opened |-> done.opened, err |-> "none"]
    ELSE LET index == Head(calls)
             called == Append(done.calls, index)
         IN  IF index >= Len(imgs)
             THEN [calls |-> called, opened |-> done.opened, err |-> "IndexError"]
             ELSE LET path == imgs[index + 1]
                      read == Append(done.opened, path)
                  IN  IF path \notin Paths(fs)
                      THEN [calls |-> called, opened |-> read,
                            err |-> "FileNotFoundError"]
                      ELSE IF ContentOf(fs, path).kind # "GeoTIFF"
                      THEN [calls |-> called, opened |-> read, err |-> "ValueError"]
                      ELSE RunFrames(Tail(calls), imgs, fs,
                                     [calls |-> called, opened |-> read])

\* s[lo:hi] of a Python sequence, for any integers lo and hi
PySlice(s, lo, hi) ==
    LET clip(k) == IF k < 0 THEN (IF Len(s) + k < 0 THEN 0 ELSE Len(s) + k)
                   ELSE (IF k > Len(s) THEN Len(s) ELSE k)
    IN  SubSeq(s, clip(lo) + 1, clip(hi))

\* (a title that keeps the file extension: images[index][-15:])
FrameTitleWithExtension(path) == PySlice(path, -15, Len(path))

\* ax.set_title(images[index][-15:-5])
FrameTitle(path) == PySlice(path, -15, -5)

\* What the figure shows after each call of animate that returned: the raster
\* of the path opened, under the title set from that path
ShownFrames(r) ==
    LET returned == IF r.err = "none" THEN Len(r.calls) ELSE Len(r.calls) - 1
    IN  [j \in 1..returned |->
            [path |-> r.opened[j], title |-> FrameTitle(r.opened[j])]]

\* (a writer that grabs the figure after the set-up call as well)
GrabbedFramesWithSetup(shown) == shown

\* ani.save draws the first frame once to set up the figure, then grabs the
\* figure after each call of animate for the frames of range(n)
GrabbedFrames(shown) == IF shown = << >> THEN << >> ELSE Tail(shown)

\* The animation cell (lines 499-535). Line 508 reads the global `raster`,
\* which no cell of the notebook binds: the cell gets past it only in a kernel
\* that still holds the name, as the one that produced the stored output did.
\* With no frame at all the outcome of ani.save is the writer's.
AnimateCell ==
    /\ pc = "globbed"
    /\ IF ~raster_bound
       THEN /\ exc' = "NameError"
            /\ pc' = "animate_raised"
            /\ UNCHANGED <<frame_calls, opened, titles, grabbed>>
       ELSE LET r == RunFrames(FrameIndexes(Len(images)), images, folder,
                               [calls |-> << >>, opened |-> << >>])
                shown == ShownFrames(r)
            IN  /\ frame_calls' = r.calls
                /\ opened' = r.opened
                /\ titles' = [j \in 1..Len(shown) |-> shown[j].title]
                /\ grabbed' = GrabbedFrames(shown)
                /\ IF images = << >>
                   THEN exc' \in {"none", "IndexError"}
                   ELSE exc' = r.err
                /\ pc' = IF exc' = "none" THEN "animated" ELSE "animate_raised"
    /\ UNCHANGED <<padYear, dates, idx, start_date, end_date, filename, catalog,
                   folder, stdout, images, attempted, filenames, outcomes,
                   written, log, raster_bound>>
    /\ UNCHANGED <<cmapVars, filterVars, restVars>>
    /\ UNCHANGED restVars

InitFolder ==
    /\ pc = "folder_cell"
    /\ exc = "none"
    /\ padYear = TRUE
    /\ dates = FirstDates
    /\ catalog \in SUBSET {Millis(FirstDates[1]), Millis(FirstDates[2])}
    /\ idx = 1
    /\ start_date = NoStr /\ end_date = NoStr /\ filename = NoStr
    /\ outputs_entry \in {"absent", "dir", "file"}
    /\ gif_entry \in IF outputs_entry = "dir" THEN {"absent", "dir", "file"}
                     ELSE {"absent"}
    /\ folder \in IF gif_entry = "dir" THEN SUBSET {StaleFrame, NotesFile} ELSE {{}}
    /\ cell_runs = 0 /\ mkdir_calls = 0
    /\ stdout = << >>
    /\ images = << >>
    /\ attempted = << >> /\ filenames = << >> /\ outcomes = << >> /\ written = {}
    /\ log = << >>
    /\ raster_bound \in BOOLEAN /\ frame_calls = << >> /\ opened = << >>
    /\ titles = << >> /\ grabbed = << >>
    /\ IdleCmap /\ IdleFilter /\ IdleSession /\ IdleCloud /\ IdleOther

\* The gif_folder cell (lines 381-383). After it the cell is run again or the
\* run goes on to the download cell; an exception stops the run.
FolderCell ==
    /\ pc = "folder_cell"
    /\ cell_runs < MaxCellRuns
    /\ LET r == MakeFolder(outputs_entry, gif_entry, folder)
       IN  /\ gif_entry' = r.gif
           /\ folder' = r.folder
           /\ exc' = r.err
           /\ mkdir_calls' = mkdir_calls + r.made
           /\ pc' \in IF r.err = "none" THEN {"folder_cell", "loop"}
                       ELSE {"folder_raised"}
    /\ cell_runs' = cell_runs + 1
    /\ UNCHANGED <<padYear, dates, idx, start_date, end_date, filename, catalog,
                   stdout, images, attempted, filenames, outcomes, written, log,
                   outputs_entry>>
    /\ UNCHANGED <<animVars, cmapVars, filterVars, sessionVars, cloudVars,
                   otherVars>>

NextFolder ==
    FolderCell \/ LoopIteration \/ DownloadCellEnd \/ GlobCell \/ AnimateCell

SpecFolder == InitFolder /\ [][NextFolder]_vars

\* C13 as stated: once the cell has run, the folder exists and no error was
\* raised. Violated where '../outputs' is missing or gif_folder is a file.
C13_AsStated ==
    (cell_runs >= 1 /\ pc \in {"folder_cell", "folder_raised"}) =>
        (gif_entry = "dir" /\ exc = "none")

\* os.mkdir can create gif_folder, or has nothing to create
FolderCanExist ==
    outputs_entry = "dir" /\ gif_entry # "file"

\* C13, where '../outputs' is a directory and gif_folder is not a file: a run
\* of the cell leaves the folder existing and raises nothing; when the folder
\* exists already the run calls no mkdir and leaves the files of the folder
\* as they are; when it is absent the run creates it, empty. In the other
\* cases the run raises and changes nothing on disk.
C13_CreatesOnlyIfAbsent ==
    [][cell_runs' = cell_runs + 1 =>
          /\ outputs_entry' = outputs_entry
          /\ FolderCanExist =>
                 /\ gif_entry' = "dir" /\ exc' = "none"
                 /\ gif_entry = "dir" =>
                        folder' = folder /\ mkdir_calls' = mkdir_calls
                 /\ gif_entry = "absent" =>
                        folder' = {} /\ mkdir_calls' = mkdir_calls + 1
          /\ ~FolderCanExist =>
                 /\ exc' # "none"
                 /\ gif_entry' = gif_entry /\ folder' = folder
                 /\ mkdir_calls' = mkdir_calls]_vars

\* The cell created the folder on its first run and found it on its second
C13_Witness ==
    /\ cell_runs = 2
    /\ mkdir_calls = 1
    /\ gif_entry = "dir"
    /\ exc = "none"

\* C12: every file the animation step reads is on disk when it is read. The
\* frame function is called only with an index in 0..len(images)-1, the path
\* it opens is images[index], a .tiff path of the output folder that the glob
\* listed, and the file of that path exists.
C12_FramesReadExistingFiles ==
    /\ \A j \in 1..Len(frame_calls) : frame_calls[j] \in 0..(Len(images) - 1)
    /\ Len(opened) = Len(frame_calls)
    /\ \A j \in 1..Len(opened) :
           /\ opened[j] = images[frame_calls[j] + 1]
           /\ opened[j] \in GlobTiff(folder, GifFolder)
           /\ opened[j] \in Paths(folder)
    /\ pc = "animate_raised" => exc # "FileNotFoundError"

\* The animation was rendered from two frames downloaded in this run
C12_Witness ==
    /\ pc = "animated"
    /\ Len(images) >= 2
    /\ Range(opened) = Range(images)
    /\ \E a, b \in 1..Len(opened) :
           opened[a] # opened[b] /\ {opened[a], opened[b]} \subseteq Paths(written)

-----------------------------------------------------------------------------
(* SpecSession: kernel sessions that run a notebook's code cells from the  *)
(* top, with the credentials ee.Authenticate() stores on disk.             *)

MaxSessions == 2

\* (the animation notebook with its ee.Initialize() line muted with a #)
AnimateCellsInitMuted ==
    << "import", "local",
       "build", "build", "build", "build", "build", "build", "build", "build",
       "build", "local", "remote", "local", "import", "local", "build",
       "remote", "local", "remote", "local", "local", "local" >>

\* The code cells of animate_image_collection.ipynb, in order, by what they
\* do with the ee library: "initialize" calls ee.Initialize() (the
\* ee.Authenticate() line is commented out), "build" makes ee objects on the
\* client, "remote" contacts the service (getVideoThumbURL, getInfo,
\* getDownloadUrl), "import" and "local" do not use ee
AnimateCells ==
    << "import", "initialize",
       "build", "build", "build", "build", "build", "build", "build", "build",
       "build", "local", "remote", "local", "import", "local", "build",
       "remote", "local", "remote", "local", "local", "local" >>

\* The code cells of value_at_a_point: its second cell calls
\* ee.Authenticate() and then ee.Initialize(); "remote" cells call getInfo
ValueAtAPointCells ==
    << "import", "authenticate_initialize",
       "remote", "build", "remote", "remote", "remote", "remote",
       "build", "build", "remote", "remote", "remote",
       "build", "build", "remote", "remote", "remote", "remote", "remote",
       "remote", "remote", "local", "build", "remote", "local" >>

Notebooks == {"animate_image_collection", "value_at_a_point"}

CellsOf(n) ==
    IF n = "animate_image_collection" THEN AnimateCells ELSE ValueAtAPointCells

InitSession ==
    /\ pc = "idle"
    /\ exc = "none"
    /\ padYear = TRUE
    /\ start_date = NoStr /\ end_date = NoStr
    /\ nb = "none" /\ cell = 0
    /\ ee_initialized = FALSE
    /\ credentials \in {"none", "valid", "expired"}
    /\ sessions = 0 /\ init_calls = 0 /\ auth_session = 0
    /\ remote_calls = {}
    /\ IdleLoop /\ IdleCmap /\ IdleFilter /\ IdleFs /\ IdleCloud /\ IdleOther

\* A notebook is opened in a fresh kernel and run from its first cell
StartKernel ==
    /\ pc \in {"idle", "running", "raised"}
    /\ sessions < MaxSessions
    /\ nb' \in Notebooks
    /\ cell' = 1
    /\ ee_initialized' = FALSE
    /\ init_calls' = 0
    /\ sessions' = sessions + 1
    /\ pc' = "running"
    /\ exc' = "none"
    /\ UNCHANGED <<credentials, auth_session, remote_calls>>
    /\ UNCHANGED <<padYear, start_date, end_date, loopVars, animVars, fsVars,
                   cmapVars, filterVars, cloudVars, otherVars>>

\* The next code cell of the notebook runs; an exception stops the run
RunCell ==
    /\ pc = "running"
    /\ cell <= Len(CellsOf(nb))
    /\ LET kind == CellsOf(nb)[cell]
           here == [nb |-> nb, cell |-> cell, session |-> sessions,
                    initialized |-> ee_initialized,
                    credentials |-> credentials,
                    auth_session |-> auth_session]
       IN  CASE kind = "authenticate_initialize" ->
                  \E completed \in BOOLEAN :
                     IF completed
                     THEN /\ credentials' = "valid"
                          /\ auth_session' = sessions
                          /\ ee_initialized' = TRUE
                          /\ init_calls' = init_calls + 1
                          /\ exc' = "none" /\ pc' = "running" /\ cell' = cell + 1
                          /\ UNCHANGED remote_calls
                     ELSE /\ exc' = "AuthenticationFailed" /\ pc' = "raised"
                          /\ UNCHANGED <<credentials, auth_session, ee_initialized,
                                         init_calls, cell, remote_calls>>
             [] kind = "initialize" ->
                  IF credentials = "valid"
                  THEN /\ ee_initialized' = TRUE
                       /\ init_calls' = init_calls + 1
                       /\ exc' = "none" /\ pc' = "running" /\ cell' = cell + 1
                       /\ UNCHANGED <<credentials, auth_session, remote_calls>>
                  ELSE /\ exc' = "NotAuthorized" /\ pc' = "raised"
                       /\ UNCHANGED <<credentials, auth_session, ee_initialized,
                                      init_calls, cell, remote_calls>>
             [] kind = "build" ->
                  /\ IF ee_initialized
                     THEN exc' = "none" /\ pc' = "running" /\ cell' = cell + 1
                     ELSE exc' = "NotInitialized" /\ pc' = "raised" /\ cell' = cell
                  /\ UNCHANGED <<credentials, auth_session, ee_initialized,
                                 init_calls, remote_calls>>
             [] kind = "remote" ->
                  /\ IF ~ee_initialized
                     THEN /\ exc' = "NotInitialized" /\ pc' = "raised" /\ cell' = cell
                          /\ UNCHANGED remote_calls
                     ELSE /\ remote_calls' = remote_calls \cup {here}
                          /\ \E answered \in BOOLEAN :
                                IF answered
                                THEN exc' = "none" /\ pc' = "running"
                                         /\ cell' = cell + 1
                                ELSE exc' = "EEException" /\ pc' = "raised"
                                         /\ cell' = cell
                  /\ UNCHANGED <<credentials, auth_session, ee_initialized, init_calls>>
             [] OTHER ->
                  /\ exc' = "none" /\ pc' = "running" /\ cell' = cell + 1
                  /\ UNCHANGED <<credentials, auth_session, ee_initialized,
                                 init_calls, remote_calls>>
    /\ UNCHANGED <<nb, sessions>>
    /\ UNCHANGED <<padYear, start_date, end_date, loopVars, animVars, fsVars,
                   cmapVars, filterVars, cloudVars, otherVars>>

\* Hours or days of inactivity between two sessions: the stored credentials
\* stop being accepted
CredentialsExpire ==
    /\ pc \in {"idle", "raised"} \/ (pc = "running" /\ cell > Len(CellsOf(nb)))
    /\ credentials = "valid"
    /\ credentials' = "expired"
    /\ pc' = "idle"
    /\ UNCHANGED <<exc, nb, cell, ee_initialized, sessions, init_calls,
                   auth_session, remote_calls>>
    /\ UNCHANGED <<padYear, start_date, end_date, loopVars, animVars, fsVars,
                   cmapVars, filterVars, cloudVars, otherVars>>

NextSession == StartKernel \/ RunCell \/ CredentialsExpire

SpecSession == InitSession /\ [][NextSession]_vars

-----------------------------------------------------------------------------
(* SpecCloud: the cells of the cloud animation that build `collection`,    *)
(* `unique_doy` and `join_col` (lines 102-179).                            *)

MaxImages == 4

\* Time stamps an image of the remote collection can carry: before, inside
\* and at the end of the requested range, 1 January, the last day of a leap
\* year and of a common year, and days that fall on the same offset in two
\* years
CloudStamps ==
    { << ymd2ord(2011, 12, 19) - EpochOrdinal, 0 >>,
      << ymd2ord(2012, 1, 1) - EpochOrdinal, 0 >>,
      << ymd2ord(2012, 1, 17) - EpochOrdinal, 0 >>,
      << ymd2ord(2012, 12, 31) - EpochOrdinal, MsPerDay \div 2 >>,
      << ymd2ord(2020, 12, 30) - EpochOrdinal, 0 >>,
      << ymd2ord(2021, 1, 1) - EpochOrdinal, 0 >>,
      << ymd2ord(2021, 1, 17) - EpochOrdinal, 0 >>,
      << ymd2ord(2021, 12, 31) - EpochOrdinal, 0 >>,
      << ymd2ord(2022, 1, 1) - EpochOrdinal, 0 >> }

\* An image of MODIS/006/MOD13A2 as the service holds it
ImageOf(t) ==
    [bands |-> {"NDVI", "EVI"},
     props |-> [k \in {"system:index", "system:time_start"} |->
                   IF k = "system:index" THEN FormatDate(t) ELSE t]]

TimeStart(img) == img.props["system:time_start"]

\* The images of the stamps S as a collection: in time order
RECURSIVE CollectionOf(_)
CollectionOf(S) ==
    IF S = {} THEN << >>
    ELSE << ImageOf(FirstStamp(S)) >> \o CollectionOf(S \ {FirstStamp(S)})

\* collection.filterDate(start, end)
FilterDateImages(col, start, end) ==
    LET Kept(img) == FilterDate({TimeStart(img)}, start, end) # {}
    IN  SelectSeq(col, Kept)

\* image.select(band)
Select(img, band) == [img EXCEPT !.bands = img.bands \cap {band}]

\* image.set(name, value)
SetProp(img, name, value) ==
    [img EXCEPT !.props = [k \in (DOMAIN img.props) \cup {name} |->
                              IF k = name THEN value ELSE img.props[k]]]

\* get_doy(img), lines 127-133
get_doy(img) == SetProp(img, "doy", getRelative(TimeStart(img)))

\* (a join that saves the first match only, as ee.Join.saveFirst does)
JoinSaveFirst(primary, secondary) ==
    LET Matches(p) ==
            LET Same(q) == q.props["doy"] = p.props["doy"]
            IN  SelectSeq(secondary, Same)
        Matched(p) == Matches(p) # << >>
        kept == SelectSeq(primary, Matched)
    IN  [i \in 1..Len(kept) |->
            SetProp(kept[i], "doy_matches", << Head(Matches(kept[i])) >>)]

\* ee.Join.saveAll('doy_matches').apply(primary, secondary, filt) with
\* filt = ee.Filter.equals(leftField='doy', rightField='doy'): each primary
\* image that has a match, with the list of its matches as a property
JoinSaveAll(primary, secondary) ==
    LET Matches(p) ==
            LET Same(q) == q.props["doy"] = p.props["doy"]
            IN  SelectSeq(secondary, Same)
        Matched(p) == Matches(p) # << >>
        kept == SelectSeq(primary, Matched)
    IN  [i \in 1..Len(kept) |->
            SetProp(kept[i], "doy_matches", Matches(kept[i]))]

InitCloud ==
    /\ pc = "select"
    /\ exc = "none"
    /\ padYear = TRUE
    /\ start_date = IsoDate(2012, 1, 1)
    /\ end_date = IsoDate(2022, 1, 1)
    /\ dates = << >> /\ idx = 1
    /\ filename = NoStr
    /\ catalog \in {S \in SUBSET CloudStamps : Cardinality(S) <= MaxImages}
    /\ folder = {} /\ stdout = << >> /\ images = << >>
    /\ attempted = << >> /\ filenames = << >> /\ outcomes = << >> /\ written = {}
    /\ log = << >>
    /\ IdleAnim /\ IdleCmap /\ IdleFilter /\ IdleFs /\ IdleSession /\ IdleCloud
    /\ IdleOther

\* modis = ee.ImageCollection('MODIS/006/MOD13A2').filterDate(start_date,
\* end_date); collection = modis.select('NDVI').map(clip)  (lines 103-106).
\* Clipping changes the footprint of an image, none of the fields kept here.
SelectCell ==
    /\ pc = "select"
    /\ LET modis == FilterDateImages(CollectionOf(catalog), start_date, end_date)
       IN  collection' = [i \in 1..Len(modis) |-> Select(modis[i], "NDVI")]
    /\ pc' = "get_doy"
    /\ UNCHANGED <<unique_doy, join_col>>
    /\ UNCHANGED <<exc, padYear, start_date, end_date, loopVars, animVars,
                   fsVars, cmapVars, filterVars, sessionVars, otherVars>>

\* collection = collection.map(get_doy)  (line 136)
GetDoyCell ==
    /\ pc = "get_doy"
    /\ collection' = [i \in 1..Len(collection) |-> get_doy(collection[i])]
    /\ pc' = "unique_doy"
    /\ UNCHANGED <<unique_doy, join_col>>
    /\ UNCHANGED <<exc, padYear, start_date, end_date, loopVars, animVars,
                   fsVars, cmapVars, filterVars, sessionVars, otherVars>>

\* unique_doy = collection.filterDate('2021-01-01', '2022-01-01')  (line 152)
UniqueDoyCell ==
    /\ pc = "unique_doy"
    /\ unique_doy' = FilterDateImages(collection, IsoDate(2021, 1, 1),
                                      IsoDate(2022, 1, 1))
    /\ pc' = "join"
    /\ UNCHANGED <<collection, join_col>>
    /\ UNCHANGED <<exc, padYear, start_date, end_date, loopVars, animVars,
                   fsVars, cmapVars, filterVars, sessionVars, otherVars>>

\* filt, join and join_col = ee.ImageCollection(join.apply(unique_doy,
\* collection, filt))  (lines 165-179)
JoinCell ==
    /\ pc = "join"
    /\ join_col' = JoinSaveAll(unique_doy, collection)
    /\ pc' = "joined"
    /\ UNCHANGED <<collection, unique_doy>>
    /\ UNCHANGED <<exc, padYear, start_date, end_date, loopVars, animVars,
                   fsVars, cmapVars, filterVars, sessionVars, otherVars>>

NextCloud == SelectCell \/ GetDoyCell \/ UniqueDoyCell \/ JoinCell

SpecCloud == InitCloud /\ [][NextCloud]_vars

\* Days from 1 January of its year to the day of t, counted on the calendar
DayOffsetInYear(t) ==
    LET ymd == DateOfStamp(t)
    IN  days_before_month(ymd[1], ymd[2]) + ymd[3] - 1

\* C16: mapping get_doy over the collection keeps the number and the order of
\* the images and, in each image, the bands and every property it had; it
\* adds the property 'doy', the zero-based day offset of system:time_start
\* within its calendar year: 0 on 1 January, never more than 365.
C16_MapAddsOnlyDoy ==
    [][(pc = "get_doy" /\ pc' = "unique_doy") =>
          /\ Len(collection') = Len(collection)
          /\ \A i \in 1..Len(collection) :
                /\ collection'[i].bands = collection[i].bands
                /\ DOMAIN collection'[i].props =
                       (DOMAIN collection[i].props) \cup {"doy"}
                /\ \A k \in (DOMAIN collection[i].props) \ {"doy"} :
                       collection'[i].props[k] = collection[i].props[k]
                /\ collection'[i].props["doy"] =
                       DayOffsetInYear(TimeStart(collection[i]))
                /\ collection'[i].props["doy"] \in 0..365
                /\ (DateOfStamp(TimeStart(collection[i]))[2] = 1
                        /\ DateOfStamp(TimeStart(collection[i]))[3] = 1)
                       => collection'[i].props["doy"] = 0]_vars

\* get_doy has been mapped over a collection that holds an image of
\* 1 January and an image of the last day of a leap year
C16_Witness ==
    /\ pc = "unique_doy"
    /\ Len(collection) >= 3
    /\ \E i, j \in 1..Len(collection) :
           /\ collection[i].props["doy"] = 0
           /\ collection[j].props["doy"] = 365

\* C17: after the join, join_col holds the images of the 2021 subset, one
\* for one and in order; the 'doy_matches' list of each holds exactly the
\* images of the full collection with the same 'doy', once each, the subset
\* image itself among them, so that it is never empty; and the lists of two
\* subset images with different 'doy' have no image in common.
C17_DoyMatches ==
    pc = "joined" =>
        /\ Range(unique_doy) =
               {q \in Range(collection) : DateOfStamp(TimeStart(q))[1] = 2021}
        /\ Len(join_col) = Len(unique_doy)
        /\ \A i \in 1..Len(join_col) :
               LET p == join_col[i]
                   matches == p.props["doy_matches"]
               IN  /\ \A k \in DOMAIN unique_doy[i].props :
                          p.props[k] = unique_doy[i].props[k]
                   /\ Range(matches) =
                          {q \in Range(collection) :
                               q.props["doy"] = p.props["doy"]}
                   /\ Len(matches) = Cardinality(Range(matches))
                   /\ unique_doy[i] \in Range(matches)
                   /\ matches # << >>
        /\ \A i, j \in 1..Len(join_col) :
               join_col[i].props["doy"] # join_col[j].props["doy"] =>
                   Range(join_col[i].props["doy_matches"])
                       \cap Range(join_col[j].props["doy_matches"]) = {}

\* Two images of 2021 with different 'doy' have been joined, one of them
\* with an image of another year as well
C17_Witness ==
    /\ pc = "joined"
    /\ \E i, j \in 1..Len(join_col) :
           /\ join_col[i].props["doy"] # join_col[j].props["doy"]
           /\ Len(join_col[i].props["doy_matches"]) >= 2

-----------------------------------------------------------------------------
(* SpecDates: the dates cell, which lists the images of MODIS/061/MOD13A2, *)
(* then the download cell, which queries MODIS/006/MOD13A2, and the glob.  *)

\* Time stamps an image of either collection can carry: one before the
\* requested range and three of the printed dates
ModisStamps ==
    { Millis(IsoDate(2011, 12, 19)), Millis(IsoDate(2012, 1, 1)),
      Millis(IsoDate(2012, 1, 17)), Millis(IsoDate(2012, 12, 18)) }

\* The stamps S as a list, in time order
RECURSIVE StampList(_)
StampList(S) ==
    IF S = {} THEN << >>
    ELSE << FirstStamp(S) >> \o StampList(S \ {FirstStamp(S)})

\* `coll` holds the images of MODIS/061/MOD13A2, `catalog` those of
\* MODIS/006/MOD13A2: two collections of the service
InitDates ==
    /\ pc = "dates_cell"
    /\ exc = "none"
    /\ padYear = TRUE
    /\ dates = << >> /\ idx = 1
    /\ start_date = NoStr /\ end_date = NoStr /\ filename = NoStr
    /\ coll \in SUBSET ModisStamps
    /\ catalog \in SUBSET ModisStamps
    /\ f_start = NoStr /\ f_end = NoStr /\ dataset = {}
    /\ folder = {} /\ stdout = << >> /\ images = << >>
    /\ attempted = << >> /\ filenames = << >> /\ outcomes = << >> /\ written = {}
    /\ log = << >>
    /\ IdleAnim /\ IdleCmap /\ IdleRest

\* The dates cell (lines 359-371): the dates of the images of
\* MODIS/061/MOD13A2 from 2012-01-01 to 2012-12-31, in the order of the
\* collection
DatesCell ==
    /\ pc = "dates_cell"
    /\ f_start' = IsoDate(2012, 1, 1)
    /\ f_end' = IsoDate(2012, 12, 31)
    /\ dataset' = FilterDate(coll, f_start', f_end')
    /\ dates' = [i \in 1..Cardinality(dataset') |->
                    FormatDate(StampList(dataset')[i])]
    /\ start_date' = f_start'
    /\ end_date' = f_end'
    /\ pc' = "loop"
    /\ UNCHANGED <<exc, padYear, idx, filename, catalog, folder, stdout, images,
                   attempted, filenames, outcomes, written, log, coll>>
    /\ UNCHANGED <<animVars, cmapVars, restVars>>

NextDates == DatesCell \/ LoopIteration \/ DownloadCellEnd \/ GlobCell

SpecDates == InitDates /\ [][NextDates]_vars

\* C18 as stated: every date of the list read in the dates cell is the date
\* of an image of the collection the download loop queries, so the window
\* [d, d + 1 day) is not empty and its first image is dated d. The list comes
\* from MODIS/061/MOD13A2 and the loop queries MODIS/006/MOD13A2: violated.
C18_EveryDateHasImage ==
    pc # "dates_cell" =>
        \A k \in 1..Len(dates) :
            LET window == FilterDate(catalog, dates[k],
                                     EndDate(dates[k], padYear).val)
            IN  /\ window # {}
                /\ FormatDate(FirstStamp(window)) = dates[k]

\* The list holds the dates of the images of the listed collection in the
\* requested range, in time order
DatesListed ==
    pc # "dates_cell" =>
        /\ Range(dates) = {FormatDate(t) : t \in dataset}
        /\ dataset = {t \in coll : DateOfStamp(t)[1] = 2012}
        /\ \A a, b \in 1..Len(dates) : a < b => StrLess(dates[a], dates[b])

-----------------------------------------------------------------------------
(* SpecRerun: the download cell run once and then run again in the same    *)
(* kernel, over the same list and the same remote collection.              *)

MaxRerunDates == 2

InitRerun ==
    /\ pc = "loop"
    /\ exc = "none"
    /\ padYear = TRUE
    /\ \E pool \in DatePools :
           /\ dates \in SeqsUpTo(pool, MaxRerunDates)
           /\ catalog \in {C \in SUBSET {Millis(d) : d \in pool} : Cardinality(C) >= 2}
    /\ idx = 1
    /\ start_date = NoStr /\ end_date = NoStr /\ filename = NoStr
    /\ folder \in {{}, {StaleFrame, NotesFile}}
    /\ stdout = << >>
    /\ images = << >>
    /\ attempted = << >> /\ filenames = << >> /\ outcomes = << >> /\ written = {}
    /\ log = << >>
    /\ IdleAnim
    /\ IdleCmap /\ IdleFilter
    /\ IdleRest

\* The download cell (lines 423-430) started a second time, after its first
\* run ended normally or by an exception: the for loop starts again at the
\* head of `dates`, the cell's output is replaced, and the names and the
\* files the first run left are still there
RerunCell ==
    /\ pc \in {"done", "raised"}
    /\ run = 1
    /\ run' = 2
    /\ first_folder' = folder
    /\ first_outcomes' = outcomes
    /\ pc' = "loop"
    /\ exc' = "none"
    /\ idx' = 1
    /\ stdout' = << >>
    /\ attempted' = << >> /\ filenames' = << >> /\ outcomes' = << >>
    /\ written' = {} /\ log' = << >>
    /\ UNCHANGED <<padYear, dates, start_date, end_date, filename, catalog,
                   folder, images>>
    /\ UNCHANGED <<animVars, cmapVars, filterVars, fsVars, sessionVars, cloudVars,
                   nameVars, hexVars>>

NextRerun == LoopIteration \/ DownloadCellEnd \/ RerunCell

SpecRerun == InitRerun /\ [][NextRerun]_vars

\* The dates of this run whose pass wrote a file
SavedDates ==
    {attempted[j] : j \in {k \in 1..Len(attempted) : outcomes[k] \in {"ok", "http_error"}}}

\* C21: a pass for a date written before replaces ndvi_<d>.tiff: the folder
\* never holds two files of one name, the files a run has written are one per
\* distinct date it has handled (one per distinct date of the list once the
\* loop has consumed it), and a second run that gets the same responses as
\* the first leaves the files of the folder and their contents as the first
\* run left them.
C21_RerunOverwritesInPlace ==
    /\ \A f, g \in folder : f.path = g.path => f = g
    /\ Paths(written) = {Filename(GifFolder, d) : d \in SavedDates}
    /\ Cardinality(written) = Cardinality(SavedDates)
    /\ pc = "done" => Cardinality(written) = Cardinality(Range(dates))
    /\ (run = 2 /\ pc \in {"done", "raised"} /\ outcomes = first_outcomes) =>
           folder = first_folder

\* A list that repeats a date has been run twice with the same responses,
\* and the folder holds the one frame of that date beside an older file
C21_Witness ==
    /\ run = 2
    /\ pc = "done"
    /\ outcomes = first_outcomes
    /\ Len(dates) = 2 /\ dates[1] = dates[2]
    /\ Cardinality(written) = 1
    /\ Cardinality(folder) > 1

\* C22: the local animation has exactly len(images) frames and frame i shows
\* images[i] of the sorted list: no file is skipped, none is shown twice, and
\* the dates of the frame files ndvi_<d>.tiff ascend. While the animation is being rendered the
\* frames grabbed so far are the head of the list.
C22_FramesFollowSortedList ==
    /\ Len(grabbed) <= Len(images)
    /\ \A i \in 1..Len(grabbed) : grabbed[i].path = images[i]
    /\ \A a, b \in 1..Len(grabbed) : a # b => grabbed[a].path # grabbed[b].path
    /\ pc = "animated" =>
           /\ Len(grabbed) = Len(images)
           /\ \A a, b \in 1..Len(grabbed) :
                  (/\ a < b
                   /\ IsFramePath(grabbed[a].path) /\ IsFramePath(grabbed[b].path)) =>
                      EarlierDay(DateIn(grabbed[a].path), DateIn(grabbed[b].path))

\* An animation of three frames, one left by an earlier run and dated in the
\* year before the two this run downloaded
C22_Witness ==
    /\ pc = "animated"
    /\ Len(grabbed) = 3
    /\ grabbed[1].path = StaleFrame.path
    /\ {grabbed[2].path, grabbed[3].path} = Paths(written)

\* C23: for every path the download loop produced, '<gif_folder>/ndvi_<d>.tiff',
\* the frame title images[index][-15:-5] is the date d, ten characters long.
C23_TitleIsDate ==
    /\ \A k \in 1..Len(filenames) :
           filenames[k] # NoStr =>
               /\ FrameTitle(filenames[k]) = attempted[k]
               /\ Len(FrameTitle(filenames[k])) = 10
    /\ \A j \in 1..Len(titles) :
           opened[j] \in Paths(written) =>
               \E k \in 1..Len(filenames) :
                   filenames[k] = opened[j] /\ titles[j] = attempted[k]
    /\ \A pool \in DatePools : \A d \in pool :
           FrameTitle(Filename(GifFolder, d)) = d

\* animate has set the titles of two frames this run downloaded
C23_Witness ==
    /\ pc = "animated"
    /\ \E a, b \in 1..Len(titles) :
           /\ titles[a] # titles[b]
           /\ {opened[a], opened[b]} \subseteq Paths(written)
           /\ titles[a] \in Range(dates) /\ titles[b] \in Range(dates)

\* C24 as stated: for every accepted n >= 2 the sampled indices are
\* floor(i*(N-1)/(n-1)), i = 0..n-1, they lie in 0..N-1, the first is 0, the
\* last is N-1 and no two are equal; for n = 1 the one index is 0; 'Set1'
\* with n = 7 samples 0,1,2,4,5,6,8. Violated: np.linspace multiplies i by a
\* rounded step, and astype(int) drops the fraction of a product that falls
\* just below a whole number.
C24_IndicesAreFloors ==
    pc = "returned" =>
        /\ cm_n >= 2 =>
               /\ \A i \in 1..Len(rgb_index) :
                      /\ rgb_index[i] = ((i - 1) * (cm_N - 1)) \div (cm_n - 1)
                      /\ rgb_index[i] \in 0..(cm_N - 1)
               /\ rgb_index[1] = 0
               /\ rgb_index[Len(rgb_index)] = cm_N - 1
               /\ \A i, j \in 1..Len(rgb_index) : i # j => rgb_index[i] # rgb_index[j]
        /\ cm_n = 1 => rgb_index = << 0 >>
        /\ (cm_N = Len(Set1) /\ cm_n = 7) => rgb_index = << 0, 1, 2, 4, 5, 6, 8 >>

\* What the sampled indices do satisfy: they are in range, start at 0, end
\* at N-1, differ from each other, and each is the floor or one less
SampledIndicesInRange ==
    pc = "returned" =>
        /\ cm_n >= 2 =>
               /\ \A i \in 1..Len(rgb_index) :
                      /\ rgb_index[i] \in 0..(cm_N - 1)
                      /\ ((i - 1) * (cm_N - 1)) \div (cm_n - 1) - rgb_index[i] \in {0, 1}
               /\ rgb_index[1] = 0
               /\ rgb_index[Len(rgb_index)] = cm_N - 1
               /\ \A i, j \in 1..Len(rgb_index) : i # j => rgb_index[i] # rgb_index[j]
        /\ cm_n = 1 => rgb_index = << 0 >>
        /\ (cm_N = Len(Set1) /\ cm_n = 7) => rgb_index = << 0, 1, 2, 4, 5, 6, 8 >>

\* C25 as stated: get_hex_cmap accepts every n from 1 to N, n = N returns all
\* the N colours, and the ValueError of the size check is raised only for
\* n > N. Violated: the check of line 933 is n > N - 1, which refuses n = N.
C25_AcceptsUpToN ==
    /\ (pc \in {"returned", "raised"} /\ cm_n \in 1..cm_N) =>
           /\ pc = "returned"
           /\ cm_n = cm_N =>
                  /\ rgb_index = [i \in 1..cm_N |-> i - 1]
                  /\ Len(hex_cmap) = cm_N
    /\ (pc = "raised" /\ cm_n >= 0) => cm_n > cm_N

-----------------------------------------------------------------------------
(* SpecNames: the statements of animate_image_collection.ipynb run top to  *)
(* bottom, with the global names each one reads and binds.                 *)

\* name -> "module"
Modules(names) == {<< n, "module" >> : n \in names}

\* name -> "object"
Objects(names) == {<< n, "object" >> : n \in names}

\* A statement of cell c that reads the global names r and binds b
St(c, r, b) == [cell |-> c, reads |-> r, needs |-> {}, binds |-> b]

\* A statement that also needs some of the names it reads to be bound to an
\* object of a given kind
StNeeding(c, r, u, b) == [cell |-> c, reads |-> r, needs |-> u, binds |-> b]

\* The top-level statements of the code cells, in order. A statement reads
\* the global names its expressions use; a call of map, of save_geotiff or
\* of ani.save also reads the names the body of the called function uses.
\* A name a compound statement binds before it reads it is not among its
\* reads. Builtins (print, len, open) are always bound.
Statements ==
    << St(1, {}, Modules({"ee"})),
       St(1, {}, Modules({"glob"})),
       St(1, {}, Modules({"requests"})),
       St(1, {}, Objects({"datetime", "timedelta"})),
       St(2, {"ee"}, {}),
       St(3, {"ee"}, Objects({"rect"})),
       St(4, {"ee"}, Objects({"region"})),
       St(5, {}, Objects({"start_date"})),
       St(5, {}, Objects({"end_date"})),
       St(5, {"ee", "start_date", "end_date"}, Objects({"modis"})),
       St(5, {"modis", "region"}, Objects({"collection"})),
       St(6, {}, Objects({"get_doy"})),
       St(6, {"collection", "get_doy", "ee"}, Objects({"collection"})),
       St(7, {"collection"}, Objects({"unique_doy"})),
       St(8, {"ee"}, Objects({"filt"})),
       St(9, {"ee"}, Objects({"join"})),
       St(9, {"ee", "join", "unique_doy", "collection", "filt"}, Objects({"join_col"})),
       St(10, {}, Objects({"apply_median"})),
       St(10, {"join_col", "apply_median", "ee"}, Objects({"composite"})),
       St(11, {}, {<< "animate", "function of an image" >>}),
       StNeeding(11, {"composite", "animate", "region"},
                 {<< "animate", "function of an image" >>},
                 {<< "animation", "ee.ImageCollection" >>}),
       St(12, {"rect"}, Objects({"animationOptions"})),
       StNeeding(13, {"animation", "animationOptions"},
                 {<< "animation", "ee.ImageCollection" >>}, {}),
       St(15, {}, Modules({"xr"})),
       St(15, {}, Modules({"plt"})),
       St(15, {}, {<< "animation", "matplotlib.animation" >>}),
       St(15, {}, Modules({"colors"})),
       St(16, {}, Objects({"save_geotiff"})),
       St(17, {"ee"}, Objects({"region"})),
       St(17, {"ee", "region"}, Objects({"mask"})),
       St(18, {}, Objects({"start_date"})),
       St(18, {}, Objects({"end_date"})),
       St(18, {"ee", "start_date", "end_date"}, Objects({"modis"})),
       St(18, {"modis"}, Objects({"collection"})),
       St(18, {}, Objects({"get_date"})),
       St(18, {"collection", "get_date", "ee"}, Objects({"dates"})),
       St(18, {"dates"}, {}),
       St(19, {}, Objects({"gif_folder"})),
       St(19, {"glob", "gif_folder"}, {}),
       St(20, {"dates", "datetime", "timedelta", "ee", "region", "mask",
               "gif_folder", "save_geotiff", "requests"},
          Objects({"date", "start_date", "end_date", "ndvi_img", "filename"})),
       St(21, {"glob", "gif_folder"}, Objects({"images"})),
       St(21, {"images"}, {}),
       St(22, {}, Objects({"hex_palette"})),
       St(22, {"colors", "hex_palette"}, Objects({"cmap"})),
       St(23, {"plt"}, Objects({"fig", "ax"})),
       St(23, {"fig"}, {}),
       St(23, {"raster", "ax", "cmap"}, {}),
       St(23, {}, {<< "animate", "function of an index" >>}),
       St(23, {"plt"}, {}),
       StNeeding(23, {"animation", "fig", "animate", "images"},
                 {<< "animation", "matplotlib.animation" >>,
                  << "animate", "function of an index" >>},
                 Objects({"ani"})),
       St(23, {"ani", "xr", "images", "ax", "cmap", "plt"}, {}) >>

\* Every global name the notebook reads or binds
Names ==
    UNION {Statements[k].reads \cup {b[1] : b \in Statements[k].binds} :
               k \in 1..Len(Statements)}

\* Names a kernel can still hold from cells run before the notebook is run
\* top to bottom: those of the animation cell and `raster`
Leftovers ==
    {<< "raster", "object" >>, << "animation", "matplotlib.animation" >>,
     << "animate", "function of an index" >>, << "images", "object" >>}

\* The namespace that holds the bindings B and nothing else
Bound(B) ==
    [n \in Names |-> IF \E b \in B : b[1] = n
                     THEN (CHOOSE b \in B : b[1] = n)[2] ELSE "unbound"]

InitNames ==
    /\ pc = "names_run"
    /\ exc = "none"
    /\ padYear = TRUE
    /\ start_date = NoStr /\ end_date = NoStr
    /\ IdleLoop /\ IdleCmap /\ IdleFilter
    /\ IdleFs /\ IdleSession /\ IdleCloud /\ IdleRerun /\ IdleHex
    /\ \/ kernel = "fresh" /\ namespace = Bound({})
       \/ /\ kernel = "used"
          /\ \E B \in SUBSET Leftovers : B # {} /\ namespace = Bound(B)
    /\ stmt = 1

\* The next statement runs: it raises NameError when a name it reads is not
\* bound, an AttributeError or TypeError when a name is bound to another kind
\* of object than the call needs, and else binds its names. An exception
\* ends the run.
RunStatement ==
    /\ pc = "names_run"
    /\ stmt <= Len(Statements)
    /\ LET s == Statements[stmt]
       IN  IF \E n \in s.reads : namespace[n] = "unbound"
           THEN /\ exc' = "NameError"
                /\ pc' = "names_raised"
                /\ UNCHANGED <<namespace, stmt>>
           ELSE IF \E u \in s.needs : namespace[u[1]] # u[2]
           THEN /\ exc' = "AttributeError"
                /\ pc' = "names_raised"
                /\ UNCHANGED <<namespace, stmt>>
           ELSE /\ namespace' =
                       [n \in Names |->
                           IF \E b \in s.binds : b[1] = n
                           THEN (CHOOSE b \in s.binds : b[1] = n)[2]
                           ELSE namespace[n]]
                /\ stmt' = stmt + 1
                /\ pc' = IF stmt = Len(Statements) THEN "names_done" ELSE "names_run"
                /\ exc' = "none"
    /\ UNCHANGED <<padYear, start_date, end_date, loopVars, animVars, fsVars,
                   cmapVars, filterVars, sessionVars, cloudVars, rerunVars, hexVars,
                   kernel>>

NextNames == RunStatement

SpecNames == InitNames /\ [][NextNames]_vars

\* The statement about to run needs name n bound to an object of kind w
AboutToUse(n, w) ==
    pc = "names_run" /\ stmt <= Len(Statements) /\ << n, w >> \in Statements[stmt].needs

\* C26 as stated: in a fresh kernel, run top to bottom, every name a
\* statement reads was bound by an earlier statement (no NameError ends the
\* run and the last statement is reached), `raster` is bound when the figure
\* is created, and `animation` is the GEE collection at getVideoThumbURL and
\* the Matplotlib module at FuncAnimation. Violated: no statement binds the
\* global `raster` that line 508 reads.
C26_NamesBoundBeforeRead ==
    kernel = "fresh" =>
        /\ exc # "NameError"
        /\ (pc = "names_run" /\ "raster" \in Statements[stmt].reads) =>
               namespace["raster"] # "unbound"
        /\ AboutToUse("animation", "ee.ImageCollection") =>
               namespace["animation"] = "ee.ImageCollection"
        /\ AboutToUse("animation", "matplotlib.animation") =>
               namespace["animation"] = "matplotlib.animation"

\* What does hold, in a fresh or a used kernel: `animation` is the GEE
\* collection when getVideoThumbURL is called and the Matplotlib module when
\* FuncAnimation is called, and no name other than `raster` is read unbound
AnimationNameAsUsed ==
    /\ AboutToUse("animation", "ee.ImageCollection") =>
           namespace["animation"] = "ee.ImageCollection"
    /\ AboutToUse("animation", "matplotlib.animation") =>
           namespace["animation"] = "matplotlib.animation"
    /\ exc # "AttributeError"
    /\ pc = "names_run" =>
           \A n \in Statements[stmt].reads \ {"raster"} : namespace[n] # "unbound"

\* The download cell under the scheduling of the interpreter: a cell that can
\* take its next step takes it, every remote call returning or raising
\* A pass of the for loop as its control flow has it: an entry of the list is
\* left and the pass for it starts. Within NextRerun its steps are the steps
\* of LoopIteration; the first disjunct makes it enabled by the guard of the
\* for statement alone, whatever the body then computes.
LoopPass ==
    /\ pc = "loop"
    /\ idx <= Len(dates)
    /\ attempted' = Append(attempted, dates[idx])
    /\ \/ UNCHANGED <<pc, exc, padYear, dates, idx, start_date, end_date, filename,
                      catalog, folder, stdout, images, filenames, outcomes,
                      written, log, animVars, cmapVars, filterVars, restVars>>
       \/ LoopIteration

SpecRerunFair ==
    /\ InitRerun
    /\ [][NextRerun]_vars
    /\ WF_vars(LoopPass)
    /\ WF_vars(DownloadCellEnd)

\* A step of the run that starts a pass is a step of LoopIteration, and a
\* pass can start exactly when LoopIteration can take a step
LoopPassIsLoopIteration ==
    [][(pc = "loop" /\ idx <= Len(dates)) =>
          /\ LoopPass
          /\ Len(outcomes') = Len(outcomes) + 1]_vars

\* How many entries of the list are the date d
Occurrences(d) == Cardinality({k \in 1..Len(dates) : dates[k] = d})

\* How many download URLs this run has requested for the date d
UrlRequests(d) ==
    Cardinality({i \in 1..Len(log) : log[i].ev = "url_request" /\ log[i].date = d})

\* C27: a run of the download loop ends, normally or by an exception, after
\* at most len(dates) passes, and there is no retry: an entry of the list is
\* requested at most once, so a date is requested no more often than the
\* list holds it (once, for a list without repeats).
C27_LoopTerminates ==
    /\ [](Len(attempted) <= Len(dates))
    /\ [](\A k \in 1..Len(dates) : Cardinality(EventsOf(k, "url_request")) <= 1)
    /\ [](\A d \in Range(dates) : UrlRequests(d) <= Occurrences(d))
    /\ (pc = "loop") ~> (pc \in {"done", "raised"})

\* A run over two different dates has ended after two passes, each date
\* requested once
C27_Witness ==
    /\ pc = "done"
    /\ Len(dates) = 2 /\ dates[1] # dates[2]
    /\ Len(attempted) = 2
    /\ UrlRequests(dates[1]) = 1 /\ UrlRequests(dates[2]) = 1

-----------------------------------------------------------------------------
(* system:time_start and system:time_end as getInfo() prints them: decimal *)
(* numbers of milliseconds since 1970-01-01T00:00 UTC (SpecFilter).        *)

\* << quotient, remainder >> of the decimal number s divided by m, digit by
\* digit, for m < 2^31 / 10
RECURSIVE DivModDigits(_, _)
DivModDigits(s, m) ==
    IF s = << >> THEN << 0, 0 >>
    ELSE LET front == DivModDigits(SubSeq(s, 1, Len(s) - 1), m)
             x == 10 * front[2] + DigitVal(s[Len(s)])
         IN  << 10 * front[1] + x \div m, x % m >>

\* (the number read as seconds since 1970)
StampOfSeconds(s) == DivModDigits(s, MsPerDay \div 1000)

\* The time stamp << d, ms >> of a number of milliseconds since 1970
StampOfMillis(s) == DivModDigits(s, MsPerDay)

\* The values the notebook shows for the first image of `dataset`
TimeStartShown ==
    << "1", "6", "5", "6", "6", "5", "5", "2", "0", "0", "0", "0", "0" >>

TimeEndShown ==
    << "1", "6", "5", "6", "7", "4", "1", "6", "0", "0", "0", "0", "0" >>

\* The collection holds daily images stamped at the GRIDMET hour only, the
\* one of 2022-07-01 among them
DailyGridmet ==
    /\ \A t \in coll : t[2] = GridmetOffset
    /\ << DayNumber(IsoDate(2022, 7, 1)), GridmetOffset >> \in coll

\* C28: for the GRIDMET image the request 2022-07-01 to 2022-07-02 selects,
\* system:time_start (1656655200000) is the stamp of the selected image and
\* lies in [2022-07-01T00:00Z, 2022-07-02T00:00Z), system:time_end is one day
\* (86,400,000 ms) later, and both are whole numbers of seconds.
C28_GridmetStamps ==
    LET ts == StampOfMillis(TimeStartShown)
        te == StampOfMillis(TimeEndShown)
    IN  /\ (/\ pc = "filtered"
            /\ f_start = IsoDate(2022, 7, 1) /\ f_end = IsoDate(2022, 7, 2)
            /\ DailyGridmet) =>
               /\ dataset = {ts}
               /\ FirstStamp(dataset) = ts
               /\ ~EarlierStamp(ts, Millis(f_start))
               /\ EarlierStamp(ts, Millis(f_end))
        /\ te = << ts[1] + 1, ts[2] >>
        /\ (te[1] - ts[1]) * MsPerDay + (te[2] - ts[2]) = 86400000
        /\ DivModDigits(TimeStartShown, 1000)[2] = 0
        /\ DivModDigits(TimeEndShown, 1000)[2] = 0
        /\ ts[2] < MsPerDay /\ te[2] < MsPerDay

\* The request 2022-07-01 to 2022-07-02 on the daily images of 06-30 to
\* 07-03 has selected the image of 07-01
C28_Witness ==
    /\ pc = "filtered"
    /\ f_start = IsoDate(2022, 7, 1) /\ f_end = IsoDate(2022, 7, 2)
    /\ coll = {<< 19173, GridmetOffset >>, << 19174, GridmetOffset >>,
               << 19175, GridmetOffset >>, << 19176, GridmetOffset >>}
    /\ dataset = {StampOfMillis(TimeStartShown)}

-----------------------------------------------------------------------------
(* SpecHex: a HEX colour given to colors.ListedColormap, shown on the      *)
(* 0-255 scale and turned back into a HEX string by colors.rgb2hex.        *)

\* The largest value of a colour component
MaxComponent == 255

UpperHexDigits ==
    << "0", "1", "2", "3", "4", "5", "6", "7", "8", "9", "A", "B", "C", "D", "E", "F" >>

\* int(c, 16) for one hexadecimal digit, in either case
HexDigitValue(c) ==
    (CHOOSE k \in 1..16 : HexDigits[k] = c \/ UpperHexDigits[k] = c) - 1

\* (a parser that knows the lower-case letters only and reads the others as 0)
HexPairValueLowerOnly(p) ==
    LET val(c) == IF \E k \in 1..16 : HexDigits[k] = c
                  THEN (CHOOSE k \in 1..16 : HexDigits[k] = c) - 1 ELSE 0
    IN  16 * val(p[1]) + val(p[2])

\* int(p, 16) for a pair of hexadecimal digits
HexPairValue(p) == 16 * HexDigitValue(p[1]) + HexDigitValue(p[2])

\* colors.to_rgba('#rrggbb'): the components int(pair, 16) / 255, given by
\* their numerators
to_rgba(h) ==
    << HexPairValue(SubSeq(h, 2, 3)), HexPairValue(SubSeq(h, 4, 5)),
       HexPairValue(SubSeq(h, 6, 7)) >>

\* (np.array(rgb_cmap(0))*255).astype(int) for the component v/255: the
\* quotient v/255 and its product with 255 are rounded to doubles, and
\* astype(int) drops the fraction
Scale255(v) == IF v = 0 THEN 0 ELSE TruncatedWholeProduct(v, MaxComponent, MaxComponent)

\* The palette of the colormaps notebook
hex_palette ==
    <<
       << "#", "F", "E", "F", "E", "F", "E" >>,
       << "#", "C", "E", "7", "E", "4", "5" >>,
       << "#", "D", "F", "9", "2", "3", "D" >>,
       << "#", "F", "1", "B", "5", "5", "5" >>,
       << "#", "F", "C", "D", "1", "6", "3" >>,
       << "#", "9", "9", "B", "7", "1", "8" >>,
       << "#", "7", "4", "A", "9", "0", "1" >>,
       << "#", "6", "6", "A", "0", "0", "0" >>,
       << "#", "5", "2", "9", "4", "0", "0" >>,
       << "#", "3", "E", "8", "6", "0", "1" >>,
       << "#", "2", "0", "7", "4", "0", "1" >>,
       << "#", "0", "5", "6", "2", "0", "1" >>,
       << "#", "0", "0", "4", "C", "0", "0" >>,
       << "#", "0", "2", "3", "B", "0", "1" >>,
       << "#", "0", "1", "2", "E", "0", "1" >>,
       << "#", "0", "1", "1", "D", "0", "1" >>,
       << "#", "0", "1", "1", "3", "0", "1" >> >>

\* str.lower() of a HEX string
Lower(h) ==
    [k \in 1..Len(h) |->
        IF \E d \in 11..16 : UpperHexDigits[d] = h[k]
        THEN HexDigits[CHOOSE d \in 11..16 : UpperHexDigits[d] = h[k]]
        ELSE h[k]]

\* '#' and three times the pair of v, in lower or in upper case
Gray(v, upper) ==
    LET digits == IF upper THEN UpperHexDigits ELSE HexDigits
        pair == << digits[(v \div 16) + 1], digits[(v % 16) + 1] >>
    IN  << "#" >> \o pair \o pair \o pair

InitHex ==
    /\ pc = "hex"
    /\ exc = "none"
    /\ padYear = TRUE
    /\ start_date = NoStr /\ end_date = NoStr
    /\ IdleLoop /\ IdleCmap /\ IdleFilter
    /\ IdleFs /\ IdleSession /\ IdleCloud /\ IdleRerun /\ IdleNames
    /\ hx_in \in Range(hex_palette)
                 \cup {Gray(v, upper) : v \in 0..MaxComponent, upper \in BOOLEAN}
    /\ hx_rgb = << >>
    /\ hx_out = << >>

\* rgb_cmap = colors.ListedColormap([...]) and the scale cell (lines
\* 1050-1051) for the colour
ScaleCell ==
    /\ pc = "hex"
    /\ hx_rgb' = [k \in 1..3 |-> Scale255(to_rgba(hx_in)[k])]
    /\ pc' = "scaled"
    /\ UNCHANGED <<exc, padYear, start_date, end_date, loopVars, animVars, fsVars,
                   cmapVars, filterVars, sessionVars, cloudVars, rerunVars,
                   nameVars, hx_in, hx_out>>

\* colors.rgb2hex(rgb_cmap(k)) for the colour
Rgb2HexCall ==
    /\ pc = "scaled"
    /\ hx_out' = rgb2hex(to_rgba(hx_in))
    /\ pc' = "encoded"
    /\ UNCHANGED <<exc, padYear, start_date, end_date, loopVars, animVars, fsVars,
                   cmapVars, filterVars, sessionVars, cloudVars, rerunVars,
                   nameVars, hx_in, hx_rgb>>

NextHex == ScaleCell \/ Rgb2HexCall

SpecHex == InitHex /\ [][NextHex]_vars

\* C29: every component value 0..255 has exactly one two-digit pair ('00'
\* for 0, 'fe' for 254, 'ff' for 255) and every pair one value; a HEX colour
\* decoded to 0-255 RGB and encoded again is the same colour up to letter
\* case ('#FEFEFE' is (254, 254, 254)); there are 256^3 = 16,777,216 colours.
C29_HexRoundTrip ==
    /\ \A v \in 0..MaxComponent : HexPairValue(Hex2(v)) = v
    /\ Cardinality({Hex2(v) : v \in 0..MaxComponent}) = MaxComponent + 1
    /\ Hex2(0) = << "0", "0" >>
    /\ Hex2(254) = << "f", "e" >>
    /\ Hex2(MaxComponent) = << "f", "f" >>
    /\ \A a, b \in 1..16 :
           Hex2(HexPairValue(<< UpperHexDigits[a], HexDigits[b] >>))
               = << HexDigits[a], HexDigits[b] >>
    /\ pc \in {"scaled", "encoded"} =>
           /\ hx_rgb = to_rgba(hx_in)
           /\ rgb2hex(hx_rgb) = Lower(hx_in)
           /\ hx_in = hex_palette[1] => hx_rgb = << 254, 254, 254 >>
    /\ pc = "encoded" => hx_out = Lower(hx_in)
    /\ (MaxComponent + 1) * (MaxComponent + 1) * (MaxComponent + 1) = 16777216

\* '#FEFEFE' has been shown as (254, 254, 254) and encoded as '#fefefe'
C29_Witness ==
    /\ pc = "encoded"
    /\ hx_in = << "#", "F", "E", "F", "E", "F", "E" >>
    /\ hx_rgb = << 254, 254, 254 >>
    /\ hx_out = << "#", "f", "e", "f", "e", "f", "e" >>

=============================================================================
